---- MODULE Spec2Model ----
(***************************************************************************)
(* Versioned set accumulators of dca-bench: the versioned store adapters,  *)
(* the MMR engine, the canonical SMT engine, the live-SMT engine and the   *)
(* append-only SMT store, with the accumulator facade add / delete /       *)
(* commit / proof / verify on top of them.                                 *)
(*                                                                         *)
(* Hashes are collision-free: a hash is the tagged tuple of its input.     *)
(* A 32-byte hash used inside a physical key is one key symbol Blk(x),     *)
(* larger than every byte, so that no two key symbols collide by accident. *)
(***************************************************************************)
EXTENDS Integers, Sequences, FiniteSets, TLC

\* ------------------------------------------------------------------ bounds
MaxSeq == 3
MaxCalls == 3
TreeHeight == 2
MaxQueries == 1
MaxSteps == 4

Items == {1, 2, 3}
AddBatches == {<<1, 2>>, <<3>>}
DeleteBatches == {<<2>>, <<2, 3>>}
Engines == {"mmr", "smt", "live", "ao"}

\* ------------------------------------------------------------- byte helpers
Pow2(n) == 2 ^ n
Min(a, b) == IF a <= b THEN a ELSE b

\* byte i (0 = least significant) of n
RECURSIVE ByteOf(_, _)
ByteOf(n, i) == IF i = 0 THEN n % 256 ELSE ByteOf(n \div 256, i - 1)

\* u64::to_be_bytes
BE8(n) == IF n < 256 THEN <<0, 0, 0, 0, 0, 0, 0, n>> ELSE [i \in 1..8 |-> ByteOf(n, 8 - i)]
\* u64::to_le_bytes
LE8(n) == IF n < 256 THEN <<n, 0, 0, 0, 0, 0, 0, 0>> ELSE [i \in 1..8 |-> ByteOf(n, i - 1)]
\* u32::to_le_bytes
LE4(n) == IF n < 256 THEN <<n, 0, 0, 0>> ELSE [i \in 1..4 |-> ByteOf(n, i - 1)]
\* u64::from_le_bytes / u64::from_be_bytes, for the values the model reaches
FromLE8(b) == b[1] + 256 * b[2] + 65536 * b[3]
FromBE8(b) == b[8] + 256 * b[7] + 65536 * b[6]

\* one 32-byte block (an H256) as a single key symbol
Blk(x) == 1000 + x

\* Option<T>
None == <<>>
Some(v) == <<v>>
IsSome(o) == Len(o) = 1
\* Option::unwrap_or
UnwrapOr(o, dflt) == IF IsSome(o) THEN o[1] ELSE dflt
\* the store adapters' match on a read: an empty slice is a removed entry
NonEmpty(o) == IF IsSome(o) /\ o[1] # <<>> THEN o ELSE None

\* slice comparison (memcmp order of the key-value store)
RECURSIVE LexLEFrom(_, _, _)
LexLEFrom(a, b, i) ==
  IF i > Len(a) THEN TRUE
  ELSE IF i > Len(b) THEN FALSE
  ELSE IF a[i] < b[i] THEN TRUE
  ELSE IF a[i] > b[i] THEN FALSE
  ELSE LexLEFrom(a, b, i + 1)

LexLE(a, b) == LexLEFrom(a, b, 1)

StartsWith(k, p) == Len(p) <= Len(k) /\ \A j \in 1..Len(p) : k[j] = p[j]

\* DB::put on the underlying key-value store
RawPut(d, k, v) == [x \in (DOMAIN d) \cup {k} |-> IF x = k THEN v ELSE d[x]]
\* DB::get on the underlying key-value store
RawGet(d, k) == IF k \in DOMAIN d THEN Some(d[k]) ELSE None

\* --------------------------------------------------------------- CellStatus
MAXBYTES8 == [i \in 1..8 |-> 255]
new_live(c) == LE8(c) \o MAXBYTES8
new_dead(c, d) == LE8(c) \o LE8(d)
is_live(st) == \A i \in 9..16 : st[i] = 255
\* a mark_as_dead that overwrites the created half
mark_as_dead_swapped(st, d) == LE8(d) \o SubSeq(st, 9, 16)
\* a mark_as_dead that keeps the consumed block of a status already consumed
mark_as_dead_once(st, d) == IF \A i \in 9..16 : st[i] = 255 THEN SubSeq(st, 1, 8) \o LE8(d) ELSE st
mark_as_dead(st, d) == SubSeq(st, 1, 8) \o LE8(d)
ZERO_CELL_STATUS == [i \in 1..16 |-> 0]

\* BlockNumber of the live-SMT engine
MAX_BLOCK_NUMBER == MAXBYTES8

\* ------------------------------------------------------------------ hashing
ZERO_H == <<0>>
\* blake2b over a byte string
HashBytes(bytes) == <<1, bytes>>
\* OutPoint::hash : H(tx_hash || index_LE); index is 0 for every element
OutPointBytes(e) == <<Blk(e)>> \o LE4(0)
\* a leaf hash that covers the created block only
LeafHashCreated(e, st) == HashBytes(OutPointBytes(e) \o SubSeq(st, 1, 8))
\* H256::from((&OutPoint, &CellStatus)) of the MMR engine
LeafHash(e, st) == HashBytes(OutPointBytes(e) \o st)
\* MergeH256::merge
MergeH256(l, r) == <<3, l, r>>
\* Value::to_h256 for CellStatus
StatusToH256(st) == IF st = ZERO_CELL_STATUS THEN ZERO_H ELSE HashBytes(st)
\* Value::to_h256 for BlockNumber
BlockToH256(b) == IF b = MAX_BLOCK_NUMBER THEN ZERO_H ELSE HashBytes(b)
\* sparse merkle tree merge of two children under the branch (h, p)
MergeSMT(h, p, l, r) == IF l = ZERO_H /\ r = ZERO_H THEN ZERO_H ELSE <<2, <<h, p>>, l, r>>

\* ---------------------------------------------------- versioned store adapter
SEQUENCE_KEY_MMR == <<1>>
SEQUENCE_KEY == <<83, 69, 81, 85, 69, 78, 67, 69>>
SEQUENCE_TO_ROOT_KEY == <<83, 69, 81, 85, 69, 78, 67, 69, 95, 84, 79, 95, 82, 79, 79, 84>>

SeqKeyOf(eng) == IF eng = "mmr" THEN SEQUENCE_KEY_MMR ELSE SEQUENCE_KEY

\* a physical key whose sequence suffix is little-endian
PhysKeyLittleEndian(key, s) == key \o LE8(s)

\* the start key of the reverse scan, and the physical key of a put
PhysKey(key, s) == key \o BE8(s)

\* the greatest key of a non-empty set of keys
LexMax(S) == CHOOSE m \in S : \A k \in S : LexLE(k, m)

\* iterator(IteratorMode::From(start, Direction::Reverse)) : its first entry,
\* cand being the keys at or before start
IterFirst(cand) == IF cand = {} THEN None ELSE Some(LexMax(cand))

\* take_while(|(k, _v)| k.starts_with(key)).next().map(|(_k, v)| v)
TakeWhileNext(d, key, o) == IF IsSome(o) /\ StartsWith(o[1], key) THEN Some(d[o[1]]) ELSE None

\* a reverse scan that returns the first entry it meets, whatever its key
StoreGetNoPrefix(d, s, key) ==
  TakeWhileNext(d, <<>>, IterFirst({k \in DOMAIN d : LexLE(k, PhysKey(key, s))}))

\* a reverse scan that starts below key ++ BE(sequence)
StoreGetExclusive(d, s, key) ==
  TakeWhileNext(d, key, IterFirst({k \in DOMAIN d : LexLE(k, PhysKey(key, s)) /\ k # PhysKey(key, s)}))

\* DefaultStore::get : reverse scan from key ++ BE(sequence)
StoreGet(d, s, key) ==
  TakeWhileNext(d, key, IterFirst({k \in DOMAIN d : LexLE(k, PhysKey(key, s))}))

\* a put that keeps one cell per logical key, overwritten in place
StorePutInPlace(d, s, key, v) == RawPut(d, PhysKey(key, 0), v)

\* a put that writes under the key as given
StorePutUnversioned(d, s, key, v) == RawPut(d, key, v)

\* DefaultStore::put : write under key ++ BE(sequence)
StorePut(d, s, key, v) == RawPut(d, PhysKey(key, s), v)

\* the persisted sequence as read by new / new_with_sequence
StoredSequence(d, eng) ==
  LET o == RawGet(d, SeqKeyOf(eng)) IN IF IsSome(o) THEN FromBE8(o[1]) ELSE 0

\* ------------------------------------------------------------ MMR geometry
RECURSIVE BitLen(_)
BitLen(n) == IF n = 0 THEN 0 ELSE 1 + BitLen(n \div 2)

AllOnes(n) == n > 0 /\ n = Pow2(BitLen(n)) - 1

RECURSIVE PosHeight1(_)
PosHeight1(p) == IF AllOnes(p) THEN BitLen(p) - 1
                 ELSE PosHeight1(p - (Pow2(BitLen(p) - 1) - 1))

pos_height_in_tree(pos) == PosHeight1(pos + 1)

RECURSIVE PeaksFrom(_, _)
PeaksFrom(off, rem) ==
  IF rem = 0 THEN <<>>
  ELSE LET t == Pow2(BitLen(rem + 1) - 1) - 1
       IN <<off + t - 1>> \o PeaksFrom(off + t, rem - t)

get_peaks(size) == PeaksFrom(0, size)


\* ------------------------------------------------------------- MMR store
POS_KEY == <<0>>
ELEMENT_KEY == <<2>>
PosKey(pos) == POS_KEY \o LE8(pos)
ElementKey(e) == ELEMENT_KEY \o <<Blk(e)>> \o LE4(0)

\* MMRStoreReadOps::get
MMRStoreGet(d, s, pos) == NonEmpty(StoreGet(d, s, PosKey(pos)))

\* MMRBatch::get_elem : the uncommitted batch first, then the store
Elem(b, d, s, pos) == IF pos \in DOMAIN b THEN Some(b[pos]) ELSE MMRStoreGet(d, s, pos)

EmptyBatch == [x \in {} |-> ZERO_H]
BatchSet(b, pos, v) == [x \in (DOMAIN b) \cup {pos} |-> IF x = pos THEN v ELSE b[x]]

\* MMR::push : append the leaf, then merge while the next position is a parent
RECURSIVE PushUp(_, _, _, _, _)
PushUp(b, d, s, pos, height) ==
  IF pos_height_in_tree(pos + 1) > height
  THEN LET p == pos + 1
           left == p - Pow2(height + 1)
           right == left + Pow2(height + 1) - 1
           parent == MergeH256(Elem(b, d, s, left)[1], Elem(b, d, s, right)[1])
       IN PushUp(BatchSet(b, p, parent), d, s, p, height + 1)
  ELSE [batch |-> b, size |-> pos + 1]

mmr_push(b, d, s, size, elem) == PushUp(BatchSet(b, size, elem), d, s, size, 0)

\* MMR::update : replace the leaf and recompute its ancestors up to the peak
RECURSIVE UpdateUp(_, _, _, _, _, _)
UpdateUp(b, d, s, size, pos, height) ==
  LET isRight == pos_height_in_tree(pos + 1) > height
      parent == IF isRight THEN pos + 1 ELSE pos + Pow2(height + 1)
      sibling == IF isRight THEN pos - (Pow2(height + 1) - 1) ELSE pos + Pow2(height + 1) - 1
  IN IF parent >= size THEN b
     ELSE LET me == b[pos]
              sib == Elem(b, d, s, sibling)[1]
              ph == IF isRight THEN MergeH256(sib, me) ELSE MergeH256(me, sib)
          IN UpdateUp(BatchSet(b, parent, ph), d, s, size, parent, height + 1)

\* an update that leaves the batch as it is
mmr_update_dropped(b, d, s, size, pos, elem) == b
mmr_update(b, d, s, size, pos, elem) == UpdateUp(BatchSet(b, pos, elem), d, s, size, pos, 0)

\* bag_rhs_peaks
RECURSIVE Bag(_)
Bag(hs) ==
  IF Len(hs) = 1 THEN hs[1]
  ELSE LET n == Len(hs)
       IN Bag(SubSeq(hs, 1, n - 2) \o <<MergeH256(hs[n], hs[n - 1])>>)

\* MMR::get_root : None stands for Err (GetRootOnEmpty, InconsistentStore)
mmr_get_root(b, d, s, size) ==
  IF size = 0 THEN None
  ELSE LET pk == get_peaks(size)
           hs == [i \in 1..Len(pk) |-> Elem(b, d, s, pk[i])]
       IN IF \E i \in 1..Len(pk) : ~IsSome(hs[i]) THEN None
          ELSE Some(Bag([i \in 1..Len(pk) |-> hs[i][1]]))

\* the node at pos (height h) has a proven leaf below it
Covers(pos, h, P) == \E p \in P : pos - (Pow2(h + 1) - 2) <= p /\ p <= pos

RECURSIVE ProofNodes(_, _, _)
ProofNodes(pos, h, P) ==
  IF ~Covers(pos, h, P) THEN {pos}
  ELSE IF h = 0 THEN {}
  ELSE ProofNodes(pos - Pow2(h), h - 1, P) \cup ProofNodes(pos - 1, h - 1, P)

SeqToSet(q) == {q[i] : i \in 1..Len(q)}

\* MMR::gen_proof : the sibling hashes of the paths of pos_list; None is Err
mmr_gen_proof(b, d, s, size, pos_list) ==
  LET P == SeqToSet(pos_list)
      pk == get_peaks(size)
      nodes == UNION {ProofNodes(pk[i], pos_height_in_tree(pk[i]), P) : i \in 1..Len(pk)}
  IN IF size = 0 \/ (\E p \in P : p >= size) \/ (\E n \in nodes : ~IsSome(Elem(b, d, s, n)))
     THEN None
     ELSE Some([mmr_size |-> size, items |-> [n \in nodes |-> Elem(b, d, s, n)[1]]])

RECURSIVE CalcNode(_, _, _, _)
CalcNode(pos, h, leaves, items) ==
  IF pos \in DOMAIN leaves THEN leaves[pos]
  ELSE IF pos \in DOMAIN items THEN items[pos]
  ELSE MergeH256(CalcNode(pos - Pow2(h), h - 1, leaves, items),
                 CalcNode(pos - 1, h - 1, leaves, items))

\* MerkleProof::verify : recompute the root from the leaves and compare
mmr_proof_verify(proof, root, leaves) ==
  LET pk == get_peaks(proof.mmr_size)
      hs == [i \in 1..Len(pk) |-> CalcNode(pk[i], pos_height_in_tree(pk[i]), leaves, proof.items)]
  IN Bag(hs) = root

\* MMRBatch::commit : every batched element is inserted at the current sequence
FlushBatch(d, b, s) ==
  LET keys == {PhysKey(PosKey(p), s) : p \in DOMAIN b}
  IN [x \in (DOMAIN d) \cup keys |->
        IF x \in keys THEN b[CHOOSE p \in DOMAIN b : PhysKey(PosKey(p), s) = x] ELSE d[x]]

\* ------------------------------------------------------ canonical SMT store
LeafKey(e) == <<Blk(e)>>
branch_key_to_vec(h, p) == <<h, Blk(p * Pow2(h + 1))>>

\* StoreReadOps::get_branch
get_branch(d, s, h, p) == NonEmpty(StoreGet(d, s, branch_key_to_vec(h, p)))

\* StoreReadOps::get_leaf
get_leaf(d, s, e) == NonEmpty(StoreGet(d, s, LeafKey(e)))

\* StoreWriteOps::insert_branch / remove_branch / insert_leaf / remove_leaf
insert_branch(d, s, h, p, node) == StorePut(d, s, branch_key_to_vec(h, p), node)
remove_branch(d, s, h, p) == RawPut(d, branch_key_to_vec(h, p) \o BE8(s), <<>>)
insert_leaf(d, s, e, v) == StorePut(d, s, LeafKey(e), v)
\* a removal that drops every version of the leaf from the database
remove_leaf_physical(d, s, e) == [x \in {k \in DOMAIN d : ~StartsWith(k, LeafKey(e))} |-> d[x]]
remove_leaf(d, s, e) == RawPut(d, LeafKey(e) \o BE8(s), <<>>)

\* SparseMerkleTree::update : store the leaf, then rewrite the branches bottom-up
RECURSIVE SmtUp(_, _, _, _, _)
SmtUp(d, s, e, h, cur) ==
  IF h = TreeHeight THEN [db |-> d, root |-> cur]
  ELSE LET p == e \div Pow2(h + 1)
           isRight == (e \div Pow2(h)) % 2 = 1
           br == get_branch(d, s, h, p)
           left == IF isRight THEN (IF IsSome(br) THEN br[1][1] ELSE ZERO_H) ELSE cur
           right == IF isRight THEN cur ELSE (IF IsSome(br) THEN br[1][2] ELSE ZERO_H)
           d2 == IF left # ZERO_H \/ right # ZERO_H
                 THEN insert_branch(d, s, h, p, <<left, right>>)
                 ELSE remove_branch(d, s, h, p)
       IN SmtUp(d2, s, e, h + 1, MergeSMT(h, p, left, right))

smt_update(d, s, e, v, vh) ==
  SmtUp(IF vh # ZERO_H THEN insert_leaf(d, s, e, v) ELSE remove_leaf(d, s, e), s, e, 0, vh)

\* SparseMerkleTree::get
smt_get(rt, d, s, e, zero) ==
  IF rt = ZERO_H THEN zero
  ELSE UnwrapOr(get_leaf(d, s, e), zero)

\* SparseMerkleTree::new_with_store : the root is rebuilt from the top branch
smt_new_root(d, s) ==
  LET br == get_branch(d, s, TreeHeight - 1, 0)
  IN IF IsSome(br) THEN MergeSMT(TreeHeight - 1, 0, br[1][1], br[1][2]) ELSE ZERO_H

\* the node i of level L (level 0 = leaves) as its parent branch records it
SmtNode(d, s, L, i) ==
  LET br == get_branch(d, s, L, i \div 2)
  IN IF IsSome(br) THEN br[1][(i % 2) + 1] ELSE ZERO_H

SmtCovers(L, i, K) == \E k \in K : k \div Pow2(L) = i

RECURSIVE SmtProofNodes(_, _, _)
SmtProofNodes(L, i, K) ==
  IF ~SmtCovers(L, i, K) THEN {<<L, i>>}
  ELSE IF L = 0 THEN {}
  ELSE SmtProofNodes(L - 1, 2 * i, K) \cup SmtProofNodes(L - 1, 2 * i + 1, K)

\* SparseMerkleTree::merkle_proof : the sibling nodes of the paths of the keys
smt_merkle_proof(d, s, K) ==
  [n \in SmtProofNodes(TreeHeight, 0, K) |-> SmtNode(d, s, n[1], n[2])]

RECURSIVE SmtCompute(_, _, _, _)
SmtCompute(L, i, leaves, proof) ==
  IF <<L, i>> \in DOMAIN proof THEN proof[<<L, i>>]
  ELSE IF L = 0 THEN leaves[i]
  ELSE MergeSMT(L - 1, i, SmtCompute(L - 1, 2 * i, leaves, proof),
                          SmtCompute(L - 1, 2 * i + 1, leaves, proof))

\* MerkleProof::verify : recompute the root from the leaves and compare
smt_proof_verify(proof, rt, leaves) == SmtCompute(TreeHeight, 0, leaves, proof) = rt

\* ---------------------------------------------------------- live-SMT store
\* put_raw / get_raw of the live-SMT store: no sequence suffix
LiveElementKey(e) == ELEMENT_KEY \o <<Blk(100 + e)>> \o LE4(0)
put_raw(d, k, v) == RawPut(d, k, v)
get_raw(d, k) == RawGet(d, k)

\* ------------------------------------------------------- append-only store
\* DefaultStore::root_by_sequence
root_by_sequence(d, sq) == RawGet(d, SEQUENCE_TO_ROOT_KEY \o BE8(sq))

\* DefaultStore::commit of the append-only store, without the increment
ao_store_commit(d, s, rt) ==
  RawPut(RawPut(d, SEQUENCE_TO_ROOT_KEY \o BE8(s), rt), SEQUENCE_KEY, BE8(s))

\* get_branch / get_leaf of the append-only store: point reads by node hash
ao_get_node(d, nh) == NonEmpty(RawGet(d, <<nh>>))

AoChildren(d, nh) ==
  IF nh = ZERO_H THEN <<ZERO_H, ZERO_H>>
  ELSE UnwrapOr(ao_get_node(d, nh), <<ZERO_H, ZERO_H>>)

\* append-only tree update: the path from the root is copied under fresh keys
RECURSIVE AoSet(_, _, _, _, _, _)
AoSet(d, nh, L, i, e, v) ==
  IF L = 0
  THEN LET lh == IF v = ZERO_CELL_STATUS THEN ZERO_H ELSE LeafHash(e, v)
       IN [db |-> IF lh = ZERO_H THEN d ELSE RawPut(d, <<lh>>, v), h |-> lh]
  ELSE LET ch == AoChildren(d, nh)
           goRight == (e \div Pow2(L - 1)) % 2 = 1
           sub == AoSet(d, ch[IF goRight THEN 2 ELSE 1], L - 1,
                        2 * i + (IF goRight THEN 1 ELSE 0), e, v)
           l == IF goRight THEN ch[1] ELSE sub.h
           r == IF goRight THEN sub.h ELSE ch[2]
           h == MergeSMT(L - 1, i, l, r)
       IN [db |-> IF h = ZERO_H THEN sub.db ELSE RawPut(sub.db, <<h>>, <<l, r>>), h |-> h]

ao_update(d, rt, e, v) ==
  LET r == AoSet(d, rt, TreeHeight, 0, e, v) IN [db |-> r.db, root |-> r.h]

RECURSIVE AoFind(_, _, _, _)
AoFind(d, nh, L, e) ==
  IF nh = ZERO_H THEN ZERO_CELL_STATUS
  ELSE IF L = 0 THEN (LET o == ao_get_node(d, nh) IN IF IsSome(o) THEN o[1] ELSE ZERO_CELL_STATUS)
  ELSE AoFind(d, AoChildren(d, nh)[IF (e \div Pow2(L - 1)) % 2 = 1 THEN 2 ELSE 1], L - 1, e)

ao_get(d, rt, e) == AoFind(d, rt, TreeHeight, e)

\* --------------------------------------------------------------- the state
VARIABLES
  engine,       \* which accumulator the run exercises
  db,           \* the key-value store: physical key -> value
  sequence,     \* DefaultStore.sequence of the writer
  mmr_size,     \* MMR.mmr_size of the writer
  batch,        \* MMRBatch of the writer: positions not yet inserted in the store
  root,         \* SparseMerkleTree.root of the writer
  commitments,  \* the commitments returned by commit(), in order
  sizes,        \* the mmr_size at each commit (what a reader passes to new_with_sequence)
  out,          \* the last call and its result
  calls,        \* number of add / delete calls made
  life,         \* per identity: the sequences of its successful adds and deletes
  queries       \* proof / verify calls made since the last add, delete or commit

vars == <<engine, db, sequence, mmr_size, batch, root, commitments, sizes, out, calls, life, queries>>

EmptyDb == [x \in {} |-> <<>>]
QOut(op, E, res, idx, k, kind, stale, c) ==
  [op |-> op, E |-> E, res |-> res, idx |-> idx, k |-> k, kind |-> kind, stale |-> stale, c |-> c]
Out(op, E, res, idx) == QOut(op, E, res, idx, 0, "none", FALSE, 0)

Init ==
  /\ engine \in Engines
  /\ db = EmptyDb
  /\ sequence = 0
  /\ mmr_size = 0
  /\ batch = EmptyBatch
  /\ root = ZERO_H
  /\ commitments = <<>>
  /\ sizes = <<>>
  /\ out = Out("new", <<>>, "ok", 0)
  /\ calls = 0
  /\ life = [e \in Items |-> [a |-> {}, d |-> {}]]
  /\ queries = 0

LifeAdd(E, s) == [e \in Items |-> IF e \in SeqToSet(E) THEN [life[e] EXCEPT !.a = @ \cup {s}] ELSE life[e]]
LifeDel(E, s) == [e \in Items |-> IF e \in SeqToSet(E) THEN [life[e] EXCEPT !.d = @ \cup {s}] ELSE life[e]]

\* the least index whose element is not in found, or 0
FirstMissing(E, found) ==
  IF \E i \in 1..Len(E) : E[i] \notin found
  THEN CHOOSE i \in 1..Len(E) : E[i] \notin found /\ \A j \in 1..(i - 1) : E[j] \in found
  ELSE 0

\* ----------------------------------------------------------------- MMR add
RECURSIVE MMRAddLoop(_, _, _, _, _, _)
MMRAddLoop(d, b, size, s, E, i) ==
  IF i > Len(E) THEN [db |-> d, batch |-> b, size |-> size]
  ELSE LET cell_status == new_live(s)
           r == mmr_push(b, d, s, size, LeafHash(E[i], cell_status))
           value == LE8(size) \o cell_status
       IN MMRAddLoop(StorePut(d, s, ElementKey(E[i]), value), r.batch, r.size, s, E, i + 1)

\* an add that refuses an identity that already has an index record
MMRAddUnique(E) ==
  LET dup == FirstMissing(E, {e \in Items : ~IsSome(StoreGet(db, sequence, ElementKey(e)))})
      r == MMRAddLoop(db, batch, mmr_size, sequence, E, 1)
  IN IF dup # 0
     THEN /\ out' = Out("add", E, "ElementExists", dup - 1)
          /\ UNCHANGED <<db, batch, mmr_size, root, life>>
     ELSE /\ db' = r.db
          /\ batch' = r.batch
          /\ mmr_size' = r.size
          /\ out' = Out("add", E, "ok", 0)
          /\ life' = LifeAdd(E, sequence)
          /\ UNCHANGED <<root>>

MMRAdd(E) ==
  LET r == MMRAddLoop(db, batch, mmr_size, sequence, E, 1)
  IN /\ db' = r.db
     /\ batch' = r.batch
     /\ mmr_size' = r.size
     /\ out' = Out("add", E, "ok", 0)
     /\ life' = LifeAdd(E, sequence)
     /\ UNCHANGED <<root>>

\* -------------------------------------------------------------- MMR delete
RECURSIVE MMRDeleteLoop(_, _, _, _, _, _)
MMRDeleteLoop(d0, d, b, s, E, i) ==
  IF i > Len(E) THEN [db |-> d, batch |-> b]
  ELSE LET slice == StoreGet(d0, s, ElementKey(E[i]))[1]
           pos == FromLE8(SubSeq(slice, 1, 8))
           cell_status == mark_as_dead(SubSeq(slice, 9, Len(slice)), s)
           b2 == mmr_update(b, d, s, mmr_size, pos, LeafHash(E[i], cell_status))
           value == LE8(pos) \o cell_status
       IN MMRDeleteLoop(d0, StorePut(d, s, ElementKey(E[i]), value), b2, s, E, i + 1)

MMRDelete(E) ==
  LET Found(e) == IsSome(StoreGet(db, sequence, ElementKey(e)))
      miss == FirstMissing(E, {e \in Items : Found(e)})
  IN IF miss # 0
     THEN /\ out' = Out("delete", E, "ElementNotFound", miss - 1)
          /\ UNCHANGED <<db, batch, mmr_size, root, life>>
     ELSE LET r == MMRDeleteLoop(db, db, batch, sequence, E, 1)
          IN /\ db' = r.db
             /\ batch' = r.batch
             /\ out' = Out("delete", E, "ok", 0)
             /\ life' = LifeDel(E, sequence)
             /\ UNCHANGED <<mmr_size, root>>

\* a commitment that carries the sequence after the advance
AccumulatorCommitmentAdvanced(rt, sq) == [root |-> rt, sequence |-> sq + 1]
\* AccumulatorCommitment { root, sequence }
AccumulatorCommitment(rt, sq) == [root |-> rt, sequence |-> sq]

\* -------------------------------------------------------------- MMR commit
MMRCommit ==
  LET r == mmr_get_root(batch, db, sequence, mmr_size)
  IN IF ~IsSome(r)
     THEN /\ out' = Out("commit", <<>>, "InternalError", 0)
          /\ UNCHANGED <<db, batch, sequence, commitments, sizes>>
     ELSE /\ db' = RawPut(FlushBatch(db, batch, sequence), SEQUENCE_KEY_MMR, BE8(sequence + 1))
          /\ batch' = EmptyBatch
          /\ sequence' = sequence + 1
          /\ commitments' = Append(commitments, AccumulatorCommitment(r[1], sequence))
          /\ sizes' = Append(sizes, mmr_size)
          /\ out' = Out("commit", <<>>, "ok", 0)

\* ------------------------------------------------- canonical SMT add/delete
RECURSIVE SmtUpdateAll(_, _, _, _, _, _)
SmtUpdateAll(d, rt, s, E, V, i) ==
  IF i > Len(E) THEN [db |-> d, root |-> rt]
  ELSE LET r == smt_update(d, s, E[i], V[i], StatusToH256(V[i]))
       IN SmtUpdateAll(r.db, r.root, s, E, V, i + 1)

SMTAdd(E) ==
  LET r == SmtUpdateAll(db, root, sequence, E, [i \in 1..Len(E) |-> new_live(sequence)], 1)
  IN /\ db' = r.db
     /\ root' = r.root
     /\ out' = Out("add", E, "ok", 0)
     /\ life' = LifeAdd(E, sequence)
     /\ UNCHANGED <<batch, mmr_size>>

SMTDelete(E) ==
  LET Found(e) == smt_get(root, db, sequence, e, ZERO_CELL_STATUS) # ZERO_CELL_STATUS
      miss == FirstMissing(E, {e \in Items : Found(e)})
      kvs == [i \in 1..Len(E) |->
                mark_as_dead(smt_get(root, db, sequence, E[i], ZERO_CELL_STATUS), sequence)]
  IN IF miss # 0
     THEN /\ out' = Out("delete", E, "ElementNotFound", miss - 1)
          /\ UNCHANGED <<db, batch, mmr_size, root, life>>
     ELSE LET r == SmtUpdateAll(db, root, sequence, E, kvs, 1)
          IN /\ db' = r.db
             /\ root' = r.root
             /\ out' = Out("delete", E, "ok", 0)
             /\ life' = LifeDel(E, sequence)
             /\ UNCHANGED <<batch, mmr_size>>

\* a commit that persists the sequence before incrementing it
store_commit_old(d, s, eng) == RawPut(d, SeqKeyOf(eng), BE8(s))
\* DefaultStore::commit of the MMR and canonical SMT stores
store_commit(d, s, eng) == RawPut(d, SeqKeyOf(eng), BE8(s + 1))

SMTCommit ==
  /\ db' = store_commit(db, sequence, engine)
  /\ sequence' = sequence + 1
  /\ commitments' = Append(commitments, AccumulatorCommitment(root, sequence))
  /\ sizes' = Append(sizes, 0)
  /\ out' = Out("commit", <<>>, "ok", 0)
  /\ UNCHANGED <<batch>>

\* ------------------------------------------------------ live-SMT add/delete
RECURSIVE LiveUpdateAll(_, _, _, _, _, _)
LiveUpdateAll(d, rt, s, E, V, i) ==
  IF i > Len(E) THEN [db |-> d, root |-> rt]
  ELSE LET r == smt_update(d, s, E[i], V[i], BlockToH256(V[i]))
       IN LiveUpdateAll(r.db, r.root, s, E, V, i + 1)

RECURSIVE LiveAddLoop(_, _, _, _)
LiveAddLoop(d, s, E, i) ==
  IF i > Len(E) THEN d
  ELSE LiveAddLoop(put_raw(d, LiveElementKey(E[i]), LE8(s)), s, E, i + 1)

LiveAdd(E) ==
  LET d1 == LiveAddLoop(db, sequence, E, 1)
      r == LiveUpdateAll(d1, root, sequence, E, [i \in 1..Len(E) |-> LE8(sequence)], 1)
  IN /\ db' = r.db
     /\ root' = r.root
     /\ out' = Out("add", E, "ok", 0)
     /\ life' = LifeAdd(E, sequence)
     /\ UNCHANGED <<batch, mmr_size>>

\* the resolve loop of delete: each found element's record is rewritten at once
RECURSIVE LiveDeleteLoop(_, _, _, _)
LiveDeleteLoop(d, s, E, i) ==
  IF i > Len(E) THEN [db |-> d, err |-> 0]
  ELSE LET o == get_raw(d, LiveElementKey(E[i]))
       IN IF IsSome(o)
          THEN LiveDeleteLoop(put_raw(d, LiveElementKey(E[i]), o[1] \o LE8(s)), s, E, i + 1)
          ELSE [db |-> d, err |-> i]

LiveDelete(E) ==
  LET l == LiveDeleteLoop(db, sequence, E, 1)
  IN IF l.err # 0
     THEN /\ db' = l.db
          /\ out' = Out("delete", E, "ElementNotFound", l.err - 1)
          /\ UNCHANGED <<batch, mmr_size, root, life>>
     ELSE LET r == LiveUpdateAll(l.db, root, sequence, E, [i \in 1..Len(E) |-> MAX_BLOCK_NUMBER], 1)
          IN /\ db' = r.db
             /\ root' = r.root
             /\ out' = Out("delete", E, "ok", 0)
             /\ life' = LifeDel(E, sequence)
             /\ UNCHANGED <<batch, mmr_size>>

\* -------------------------------------------- append-only SMT add/delete
RECURSIVE AoUpdateAll(_, _, _, _, _)
AoUpdateAll(d, rt, E, V, i) ==
  IF i > Len(E) THEN [db |-> d, root |-> rt]
  ELSE LET r == ao_update(d, rt, E[i], V[i]) IN AoUpdateAll(r.db, r.root, E, V, i + 1)

AOAdd(E) ==
  LET r == AoUpdateAll(db, root, E, [i \in 1..Len(E) |-> new_live(sequence)], 1)
  IN /\ db' = r.db
     /\ root' = r.root
     /\ out' = Out("add", E, "ok", 0)
     /\ life' = LifeAdd(E, sequence)
     /\ UNCHANGED <<batch, mmr_size>>

AODelete(E) ==
  LET Found(e) == ao_get(db, root, e) # ZERO_CELL_STATUS
      miss == FirstMissing(E, {e \in Items : Found(e)})
      kvs == [i \in 1..Len(E) |-> mark_as_dead(ao_get(db, root, E[i]), sequence)]
  IN IF miss # 0
     THEN /\ out' = Out("delete", E, "ElementNotFound", miss - 1)
          /\ UNCHANGED <<db, batch, mmr_size, root, life>>
     ELSE LET r == AoUpdateAll(db, root, E, kvs, 1)
          IN /\ db' = r.db
             /\ root' = r.root
             /\ out' = Out("delete", E, "ok", 0)
             /\ life' = LifeDel(E, sequence)
             /\ UNCHANGED <<batch, mmr_size>>

AOCommit ==
  /\ db' = ao_store_commit(db, sequence, root)
  /\ sequence' = sequence + 1
  /\ commitments' = Append(commitments, AccumulatorCommitment(root, sequence))
  /\ sizes' = Append(sizes, 0)
  /\ out' = Out("commit", <<>>, "ok", 0)
  /\ UNCHANGED <<batch>>

\* ------------------------------------------------------------ the facade
Add(E) ==
  /\ calls < MaxCalls
  /\ calls' = calls + 1
  /\ queries' = 0
  /\ CASE engine = "mmr" -> MMRAdd(E)
       [] engine = "smt" -> SMTAdd(E)
       [] engine = "live" -> LiveAdd(E)
       [] OTHER -> AOAdd(E)
  /\ UNCHANGED <<engine, sequence, commitments, sizes>>

Delete(E) ==
  /\ calls < MaxCalls
  /\ calls' = calls + 1
  /\ queries' = 0
  /\ CASE engine = "mmr" -> MMRDelete(E)
       [] engine = "smt" -> SMTDelete(E)
       [] engine = "live" -> LiveDelete(E)
       [] OTHER -> AODelete(E)
  /\ UNCHANGED <<engine, sequence, commitments, sizes>>

Commit ==
  /\ sequence < MaxSeq
  /\ queries' = 0
  /\ CASE engine = "mmr" -> MMRCommit
       [] engine = "ao" -> AOCommit
       [] OTHER -> SMTCommit
  /\ UNCHANGED <<engine, mmr_size, root, calls, life>>

\* ------------------------------------------------------ accumulator views
\* an accumulator instance: the store's sequence and the tree's in-memory state
Writer == [seq |-> sequence, size |-> mmr_size, batch |-> batch, root |-> root]

\* the guard of DefaultStore::new_with_sequence (it panics otherwise)
CanOpen(k) == k <= StoredSequence(db, engine)

\* the mmr_size a reader passes for sequence k: the size at commit k, and the
\* size the store holds so far for the sequence still being written
ViewSize(k) ==
  IF k + 1 <= Len(sizes) THEN sizes[k + 1]
  ELSE IF Len(sizes) = 0 THEN 0 ELSE sizes[Len(sizes)]

\* MMRAccumulator / SMTAccumulator ::new_with_sequence on the current store
ViewAt(k) ==
  [seq |-> k,
   size |-> IF engine = "mmr" THEN ViewSize(k) ELSE 0,
   batch |-> EmptyBatch,
   root |-> CASE engine = "mmr" -> ZERO_H
              [] engine = "ao" -> (LET o == root_by_sequence(db, k) IN IF IsSome(o) THEN o[1] ELSE ZERO_H)
              [] OTHER -> smt_new_root(db, k)]

\* the root the instance computes: get_root() of the MMR, root() of an SMT
InstRoot(inst) ==
  IF engine = "mmr" THEN mmr_get_root(inst.batch, db, inst.seq, inst.size)
  ELSE Some(inst.root)

PRes(res, idx, proof) == [res |-> res, idx |-> idx, proof |-> proof]

\* a proof that resolves the elements before it compares the roots
MMRProofResolveFirst(inst, c, E) ==
  LET r == mmr_get_root(inst.batch, db, inst.seq, inst.size)
      Found(e) == IsSome(StoreGet(db, inst.seq, ElementKey(e)))
      miss == FirstMissing(E, {e \in Items : Found(e)})
      pos_list == [i \in 1..Len(E) |->
                     FromLE8(SubSeq(StoreGet(db, inst.seq, ElementKey(E[i]))[1], 1, 8))]
      p == mmr_gen_proof(inst.batch, db, inst.seq, inst.size, pos_list)
  IN IF ~IsSome(r) THEN PRes("InternalError", 0, <<>>)
     ELSE IF miss # 0 THEN PRes("ElementNotFound", miss - 1, <<>>)
     ELSE IF c.root # r[1] THEN PRes("InvalidCommitment", 0, <<>>)
     ELSE IF ~IsSome(p) THEN PRes("InternalError", 0, <<>>)
     ELSE PRes("ok", 0, [inner |-> p[1], pos_list |-> pos_list])

\* a proof that also compares the commitment's sequence with the view's
MMRProofSequenceChecked(inst, c, E) ==
  LET r == mmr_get_root(inst.batch, db, inst.seq, inst.size)
      Found(e) == IsSome(StoreGet(db, inst.seq, ElementKey(e)))
      miss == FirstMissing(E, {e \in Items : Found(e)})
      pos_list == [i \in 1..Len(E) |->
                     FromLE8(SubSeq(StoreGet(db, inst.seq, ElementKey(E[i]))[1], 1, 8))]
      p == mmr_gen_proof(inst.batch, db, inst.seq, inst.size, pos_list)
  IN IF ~IsSome(r) THEN PRes("InternalError", 0, <<>>)
     ELSE IF c.root # r[1] \/ c.sequence # inst.seq THEN PRes("InvalidCommitment", 0, <<>>)
     ELSE IF miss # 0 THEN PRes("ElementNotFound", miss - 1, <<>>)
     ELSE IF ~IsSome(p) THEN PRes("InternalError", 0, <<>>)
     ELSE PRes("ok", 0, [inner |-> p[1], pos_list |-> pos_list])

\* MMRAccumulator::proof
MMRProof(inst, c, E) ==
  LET r == mmr_get_root(inst.batch, db, inst.seq, inst.size)
      Found(e) == IsSome(StoreGet(db, inst.seq, ElementKey(e)))
      miss == FirstMissing(E, {e \in Items : Found(e)})
      pos_list == [i \in 1..Len(E) |->
                     FromLE8(SubSeq(StoreGet(db, inst.seq, ElementKey(E[i]))[1], 1, 8))]
      p == mmr_gen_proof(inst.batch, db, inst.seq, inst.size, pos_list)
  IN IF ~IsSome(r) THEN PRes("InternalError", 0, <<>>)
     ELSE IF c.root # r[1] THEN PRes("InvalidCommitment", 0, <<>>)
     ELSE IF miss # 0 THEN PRes("ElementNotFound", miss - 1, <<>>)
     ELSE IF ~IsSome(p) THEN PRes("InternalError", 0, <<>>)
     ELSE PRes("ok", 0, [inner |-> p[1], pos_list |-> pos_list])

\* a canonical proof that resolves the elements before it compares the roots
SMTProofResolveFirst(inst, c, E) ==
  LET Found(e) == smt_get(inst.root, db, inst.seq, e, ZERO_CELL_STATUS) # ZERO_CELL_STATUS
      miss == FirstMissing(E, {e \in Items : Found(e)})
  IN IF miss # 0 THEN PRes("ElementNotFound", miss - 1, <<>>)
     ELSE IF c.root # inst.root THEN PRes("InvalidCommitment", 0, <<>>)
     ELSE PRes("ok", 0, [inner |-> smt_merkle_proof(db, inst.seq, SeqToSet(E))])

\* SMTAccumulator::proof (canonical)
SMTProof(inst, c, E) ==
  LET Found(e) == smt_get(inst.root, db, inst.seq, e, ZERO_CELL_STATUS) # ZERO_CELL_STATUS
      miss == FirstMissing(E, {e \in Items : Found(e)})
  IN IF c.root # inst.root THEN PRes("InvalidCommitment", 0, <<>>)
     ELSE IF miss # 0 THEN PRes("ElementNotFound", miss - 1, <<>>)
     ELSE PRes("ok", 0, [inner |-> smt_merkle_proof(db, inst.seq, SeqToSet(E))])

\* SMTAccumulator::proof (live-SMT): one creation proof per element, no consumption proof
LiveProof(inst, c, E) ==
  IF c.root # inst.root THEN PRes("InvalidCommitment", 0, <<>>)
  ELSE PRes("ok", 0, [inner |-> [i \in 1..Len(E) |->
                                   <<smt_merkle_proof(db, inst.seq, {E[i]}), None>>]])

Proof(inst, c, E) ==
  CASE engine = "mmr" -> MMRProof(inst, c, E)
    [] engine = "smt" -> SMTProof(inst, c, E)
    [] OTHER -> LiveProof(inst, c, E)

\* a verify that rejects only a list of pairs shorter than the position list
\* and pairs the positions with the first pairs
MMRVerifyAtLeast(proof, c, pairs) ==
  IF Len(pairs) < Len(proof.pos_list) THEN "InvalidProof"
  ELSE LET P == SeqToSet(proof.pos_list)
           leaves == [p \in P |->
                        LET i == CHOOSE j \in 1..Len(proof.pos_list) : proof.pos_list[j] = p
                        IN LeafHash(pairs[i][1], pairs[i][2])]
       IN IF mmr_proof_verify(proof.inner, c.root, leaves) THEN "true" ELSE "false"

\* AccumulatorProof::verify of the MMR engine; pairs are <<element, status>>
MMRVerify(proof, c, pairs) ==
  IF Len(pairs) # Len(proof.pos_list) THEN "InvalidProof"
  ELSE LET P == SeqToSet(proof.pos_list)
           leaves == [p \in P |->
                        LET i == CHOOSE j \in 1..Len(pairs) : proof.pos_list[j] = p
                        IN LeafHash(pairs[i][1], pairs[i][2])]
       IN IF mmr_proof_verify(proof.inner, c.root, leaves) THEN "true" ELSE "false"

\* AccumulatorProof::verify of the canonical SMT engine
SMTVerify(proof, c, pairs) ==
  LET K == {pairs[i][1] : i \in 1..Len(pairs)}
      leaves == [k \in K |->
                   LET i == CHOOSE j \in 1..Len(pairs) : pairs[j][1] = k
                   IN StatusToH256(pairs[i][2])]
  IN IF smt_proof_verify(proof.inner, c.root, leaves) THEN "true" ELSE "false"

\* a one-key MerkleProof is a list of siblings by height; verify walks the
\* path of the key it is given and takes the sibling of each height from it
Sibling(i) == IF i % 2 = 0 THEN i + 1 ELSE i - 1
SmtRekey(proof, e) ==
  [n \in {<<L, Sibling(e \div Pow2(L))>> : L \in 0..(TreeHeight - 1)} |->
     proof[CHOOSE m \in DOMAIN proof : m[1] = n[1]]]

\* AccumulatorProof::verify of the live-SMT engine; cs is a list of
\* <<create_commitment, Option<consume_commitment>>>
RECURSIVE LiveVerifyLoop(_, _, _, _)
LiveVerifyLoop(proof, cs, pairs, i) ==
  IF i > Min(Len(pairs), Len(cs)) THEN "true"
  ELSE LET e == pairs[i][1]
           st == pairs[i][2]
           created == [k \in {e} |-> BlockToH256(SubSeq(st, 1, 8))]
           consumed == [k \in {e} |-> BlockToH256(MAX_BLOCK_NUMBER)]
       IN IF ~smt_proof_verify(SmtRekey(proof.inner[i][1], e), cs[i][1].root, created) THEN "false"
          ELSE IF is_live(st) THEN LiveVerifyLoop(proof, cs, pairs, i + 1)
          ELSE IF IsSome(cs[i][2]) /\ IsSome(proof.inner[i][2])
               THEN (IF ~smt_proof_verify(SmtRekey(proof.inner[i][2][1], e), cs[i][2][1].root, consumed)
                     THEN "false" ELSE LiveVerifyLoop(proof, cs, pairs, i + 1))
               ELSE "false"

LiveVerify(proof, cs, pairs) ==
  IF Len(cs) # Len(proof.inner) THEN "false" ELSE LiveVerifyLoop(proof, cs, pairs, 1)

\* the status a view reads back for an element (ZERO_CELL_STATUS when absent)
StatusAt(k, e) ==
  CASE engine = "mmr" ->
         (LET o == StoreGet(db, k, ElementKey(e))
          IN IF IsSome(o) THEN SubSeq(o[1], 9, 24) ELSE ZERO_CELL_STATUS)
    [] engine = "smt" -> smt_get(smt_new_root(db, k), db, k, e, ZERO_CELL_STATUS)
    [] engine = "ao" -> ao_get(db, ViewAt(k).root, e)
    [] OTHER ->
         (LET o == get_raw(db, LiveElementKey(e))
          IN IF ~IsSome(o) THEN ZERO_CELL_STATUS
             ELSE IF Len(o[1]) = 8 THEN o[1] \o MAXBYTES8
             ELSE SubSeq(o[1], 1, 16))

ActualPairs(k, E) == [i \in 1..Len(E) |-> <<E[i], StatusAt(k, E[i])>>]

\* a wrong status for the first element: live <-> consumed at k
Flip(st, k) == IF is_live(st) THEN mark_as_dead(st, k) ELSE SubSeq(st, 1, 8) \o MAXBYTES8
FlippedPairs(k, E) ==
  [i \in 1..Len(E) |-> <<E[i], IF i = 1 THEN Flip(StatusAt(k, E[i]), k) ELSE StatusAt(k, E[i])>>]

Verify(proof, c, pairs) ==
  CASE engine = "mmr" -> MMRVerify(proof, c, pairs)
    [] engine = "smt" -> SMTVerify(proof, c, pairs)
    [] OTHER -> LiveVerify(proof, [i \in 1..Len(pairs) |-> <<c, None>>], pairs)

ProofBatches == {<<2>>, <<3>>, <<2, 3>>}
Committed == 0..(Len(commitments) - 1)
CommitmentOf(k) == commitments[k + 1]

\* the comparison proof() makes between the commitment and the instance's root
Stale(inst, c) == LET r == InstRoot(inst) IN ~IsSome(r) \/ c.root # r[1]

\* the status the call history gives an element added once and deleted at most once
AddedAt(e) == CHOOSE a \in life[e].a : TRUE
DeletedAt(e) == CHOOSE d \in life[e].d : TRUE
LifeOK(k, e) ==
  /\ Cardinality(life[e].a) = 1
  /\ Cardinality(life[e].d) <= 1
  /\ AddedAt(e) <= k
  /\ life[e].d # {} => DeletedAt(e) > AddedAt(e)
LifeStatus(k, e) ==
  IF life[e].d # {} /\ DeletedAt(e) <= k
  THEN new_dead(AddedAt(e), DeletedAt(e))
  ELSE new_live(AddedAt(e))
LifePairs(k, E) == [i \in 1..Len(E) |-> <<E[i], LifeStatus(k, E[i])>>]

PairsOf(kind, k, E) == IF kind = "actual" THEN ActualPairs(k, E) ELSE FlippedPairs(k, E)

\* --------------------------------------------------- proof / verify calls
\* proof(c, E) on the writer itself
WriterProof(c, E) ==
  /\ engine \in {"mmr", "smt", "live"}
  /\ queries < MaxQueries
  /\ queries' = queries + 1
  /\ out' = (LET r == Proof(Writer, c, E)
             IN QOut("proof", E, r.res, r.idx, sequence, "none", Stale(Writer, c), c.sequence))
  /\ UNCHANGED <<engine, db, sequence, mmr_size, batch, root, commitments, sizes, calls, life>>

\* new_with_sequence(k) followed by proof(c, E) on the view
ReaderProof(k, c, E) ==
  /\ engine \in {"mmr", "smt", "live"}
  /\ queries < MaxQueries
  /\ CanOpen(k)
  /\ queries' = queries + 1
  /\ out' = (LET r == Proof(ViewAt(k), c, E)
             IN QOut("rproof", E, r.res, r.idx, k, "none", Stale(ViewAt(k), c), c.sequence))
  /\ UNCHANGED <<engine, db, sequence, mmr_size, batch, root, commitments, sizes, calls, life>>

\* proof(C_k, E) on the view as of k, then verify(c, pairs) of the proof it returned
VerifyCall(k, E, c, kind) ==
  /\ engine \in {"mmr", "smt"}
  /\ queries < MaxQueries
  /\ CanOpen(k)
  /\ queries' = queries + 1
  /\ out' = (LET r == Proof(ViewAt(k), CommitmentOf(k), E)
             IN QOut("verify", E,
                     IF r.res = "ok" THEN Verify(r.proof, c, PairsOf(kind, k, E)) ELSE r.res,
                     r.idx, k, kind, c.root # CommitmentOf(k).root, c.sequence))
  /\ UNCHANGED <<engine, db, sequence, mmr_size, batch, root, commitments, sizes, calls, life>>

\* new_with_sequence(db, k) as a call of its own: it panics or returns a view
OpenView(k) ==
  /\ queries < MaxQueries
  /\ queries' = queries + 1
  /\ out' = QOut("open", <<>>, IF CanOpen(k) THEN "ok" ELSE "panic", 0, k, "none", FALSE, 0)
  /\ UNCHANGED <<engine, db, sequence, mmr_size, batch, root, commitments, sizes, calls, life>>

\* the writer's operations alone
NextWrites ==
  \/ \E E \in AddBatches : Add(E)
  \/ \E E \in DeleteBatches : Delete(E)
  \/ Commit

SpecWrites == Init /\ [][NextWrites]_vars

\* the writer's operations and proof() on the writer and on historical views
NextProofs ==
  \/ \E E \in AddBatches : Add(E)
  \/ \E E \in DeleteBatches : Delete(E)
  \/ Commit
  \/ \E j \in 1..Len(commitments), E \in ProofBatches : WriterProof(commitments[j], E)
  \/ \E k \in Committed : \E j \in {k + 1, Len(commitments)}, E \in ProofBatches :
        ReaderProof(k, commitments[j], E)

SpecProofs == Init /\ [][NextProofs]_vars

\* the writer's operations and proof() followed by verify(): with the view's
\* own commitment and the right or a wrong status, and with the statuses the
\* view holds against the latest commitment
NextVerify ==
  \/ \E E \in AddBatches : Add(E)
  \/ \E E \in DeleteBatches : Delete(E)
  \/ Commit
  \/ \E k \in Committed, E \in ProofBatches, kind \in {"actual", "flipped"} :
        VerifyCall(k, E, CommitmentOf(k), kind)
  \/ \E k \in Committed, E \in ProofBatches :
        VerifyCall(k, E, commitments[Len(commitments)], "actual")

SpecVerify == Init /\ [][NextVerify]_vars

\* the writer's operations and the calls whose arguments the caller picks freely
\* the commitment list a caller hands to the live-SMT verify: n entries, the
\* creation commitment c and the consumption commitment cc in each
LiveCommitments(n, c, cc) == [i \in 1..n |-> <<c, cc>>]

\* live-SMT: proof(C_k, E) on the view as of k, then verify of the proof it
\* returned against n commitment entries and the pairs of the elements VE
LiveVerifyCall(k, E, VE, kind, n, cc) ==
  /\ engine = "live"
  /\ queries < MaxQueries
  /\ CanOpen(k)
  /\ queries' = queries + 1
  /\ out' = (LET r == LiveProof(ViewAt(k), CommitmentOf(k), E)
             IN QOut("lverify", VE,
                     IF r.res = "ok"
                     THEN LiveVerify(r.proof, LiveCommitments(n, CommitmentOf(k), cc), PairsOf(kind, k, VE))
                     ELSE r.res,
                     E, k, kind, r.res # "ok", [n |-> n, cc |-> cc]))
  /\ UNCHANGED <<engine, db, sequence, mmr_size, batch, root, commitments, sizes, calls, life>>

\* MMR: proof(C_k, E) on the view as of k, then verify of the proof it
\* returned against commitment c and the pairs of the elements VE
MMRVerifyCall(k, E, VE, kind, c) ==
  /\ engine = "mmr"
  /\ queries < MaxQueries
  /\ CanOpen(k)
  /\ queries' = queries + 1
  /\ out' = (LET r == MMRProof(ViewAt(k), CommitmentOf(k), E)
             IN QOut("mverify", VE,
                     IF r.res = "ok" THEN MMRVerify(r.proof, c, PairsOf(kind, k, VE)) ELSE r.res,
                     E, k, kind, r.res # "ok", c.sequence))
  /\ UNCHANGED <<engine, db, sequence, mmr_size, batch, root, commitments, sizes, calls, life>>

NextCallers ==
  \/ \E E \in AddBatches : Add(E)
  \/ \E E \in DeleteBatches : Delete(E)
  \/ Commit
  \/ \E k \in 0..(MaxSeq + 1) : OpenView(k)
  \/ \E k \in Committed \cap {Len(commitments) - 1} :
       \E E \in {<<2>>, <<2, 3>>}, VE \in ProofBatches, kind \in {"actual", "flipped"},
          n \in 1..2, cc \in {None, Some(CommitmentOf(k))} :
         LiveVerifyCall(k, E, VE, kind, n, cc)
  \/ \E k \in Committed \cap {Len(commitments) - 1} :
       \E E \in ProofBatches, VE \in ProofBatches, kind \in {"actual", "flipped"},
          c \in {CommitmentOf(k), CommitmentOf(0)} :
         MMRVerifyCall(k, E, VE, kind, c)

SpecCallers == Init /\ [][NextCallers]_vars

\* ================================================================ properties

\* C1: historical isolation. After any run of add / delete / commit, a view
\* opened with new_with_sequence at a committed sequence k computes exactly the
\* root commit() returned at k, whatever was written afterwards.
HistoricalIsolation ==
  \A k \in Committed : InstRoot(ViewAt(k)) = Some(CommitmentOf(k).root)

\* an element committed at 0 was deleted in a later block, the root moved on,
\* and the view at 0 still computes the first root
HistoricalIsolationWitness ==
  /\ Len(commitments) >= 2
  /\ commitments[1].root # commitments[Len(commitments)].root
  /\ \E e \in Items : 0 \in life[e].a /\ \E d \in life[e].d : d >= 1 /\ d < sequence
  /\ InstRoot(ViewAt(0)) = Some(commitments[1].root)

\* the value of the put to K made at the greatest sequence <= S, read off the
\* physical cells one by one
VersionedTruth(d, S, K) ==
  LET ss == {s \in 0..S : PhysKey(K, s) \in DOMAIN d}
  IN IF ss = {} THEN None
     ELSE Some(d[PhysKey(K, CHOOSE s \in ss : \A t \in ss : t <= s)])

\* the logical keys of the persisted layout of the MMR and canonical SMT stores
LogicalKeys ==
  IF engine = "mmr"
  THEN {PosKey(p) : p \in 0..(4 * MaxCalls)} \cup {ElementKey(e) : e \in Items}
  ELSE {LeafKey(e) : e \in 0..(Pow2(TreeHeight) - 1)}
       \cup {branch_key_to_vec(h, p) : h \in 0..(TreeHeight - 1), p \in 0..(Pow2(TreeHeight) - 1)}

PresentAtCommit(k, e) == \E a \in life[e].a : a <= k

\* C3: proof round-trip. For any run and any commitment C, proof(C, E) on the
\* view as of C.sequence succeeds for a list E of elements present at C, and
\* verify(C, E paired with the statuses recorded at C) returns Ok(true).
ProofRoundTrip ==
  (/\ out.op = "verify"
   /\ out.kind = "actual"
   /\ ~out.stale
   /\ \A i \in 1..Len(out.E) : PresentAtCommit(out.k, out.E[i]))
  => out.res = "true"

\* the same with the identities whose recorded status is the all-zero status
\* (created at 0 and consumed at 0) left out
ProofRoundTripNonZero ==
  (/\ out.op = "verify"
   /\ out.kind = "actual"
   /\ ~out.stale
   /\ \A i \in 1..Len(out.E) :
        PresentAtCommit(out.k, out.E[i]) /\ ~(0 \in life[out.E[i]].a /\ 0 \in life[out.E[i]].d))
  => out.res = "true"

\* C4: verification soundness. verify(C, pairs) returns Ok(true) only for the
\* statuses recorded in the state whose root is C.root; against the root of a
\* different state, or with a status that differs from the recorded one, it
\* returns Ok(false) and never an error.
VerificationSoundness ==
  (/\ out.op = "verify"
   /\ out.kind \in {"actual", "flipped"}
   /\ out.res \notin {"ElementNotFound", "InvalidCommitment", "InternalError"})
  => /\ (out.stale \/ out.kind = "flipped") => out.res = "false"
     /\ out.res = "true" => (~out.stale /\ out.kind = "actual")

\* a proof of two elements was checked with a consumed element claimed live,
\* and was refused
VerificationSoundnessWitness ==
  /\ out.op = "verify"
  /\ out.kind = "flipped"
  /\ ~out.stale
  /\ Len(out.E) = 2
  /\ life[out.E[1]].d # {}
  /\ out.res = "false"

\* C5: lifecycle seen through history. An element added once in the block
\* committed at a and deleted once in the block committed at d > a verifies,
\* on the view as of k, against live(created a) for a <= k < d and against
\* (created a, consumed d) for k >= d.
LifecycleThroughHistory ==
  (/\ out.op = "verify"
   /\ out.kind = "actual"
   /\ ~out.stale
   /\ \A i \in 1..Len(out.E) : LifeOK(out.k, out.E[i]))
  => /\ ActualPairs(out.k, out.E) = LifePairs(out.k, out.E)
     /\ out.res = "true"

\* add {1,2}, commit, add {3}, commit, delete {2}, commit: at the third
\* commitment element 2 verifies as created 0, consumed 2
LifecycleThroughHistoryWitness ==
  /\ life = [e \in Items |-> CASE e = 1 -> [a |-> {0}, d |-> {}]
                               [] e = 2 -> [a |-> {0}, d |-> {2}]
                               [] OTHER -> [a |-> {1}, d |-> {}]]
  /\ out.op = "verify"
  /\ out.kind = "actual"
  /\ ~out.stale
  /\ out.k = 2
  /\ out.E = <<2>>
  /\ ActualPairs(2, <<2>>) = <<<<2, new_dead(0, 2)>>>>
  /\ out.res = "true"

\* what the writer has on record for an element, read from a given store state
HasRecord(eng, d, rt, s, e) ==
  CASE eng = "mmr" -> IsSome(StoreGet(d, s, ElementKey(e)))
    [] eng = "smt" -> smt_get(rt, d, s, e, ZERO_CELL_STATUS) # ZERO_CELL_STATUS
    [] eng = "live" -> IsSome(get_raw(d, LiveElementKey(e)))
    [] OTHER -> ao_get(d, rt, e) # ZERO_CELL_STATUS
StatusOf(eng, d, rt, s, e) ==
  CASE eng = "mmr" ->
         (LET o == StoreGet(d, s, ElementKey(e))
          IN IF IsSome(o) THEN SubSeq(o[1], 9, 24) ELSE ZERO_CELL_STATUS)
    [] eng = "smt" -> smt_get(rt, d, s, e, ZERO_CELL_STATUS)
    [] eng = "live" ->
         (LET o == get_raw(d, LiveElementKey(e)) IN IF IsSome(o) THEN o[1] ELSE <<>>)
    [] OTHER -> ao_get(d, rt, e)

\* the step is a delete call, named in out'
IsDelete == out'.op = "delete" /\ calls' = calls + 1
NamesDeleted == \E i \in 1..Len(out'.E) : life[out'.E[i]].d # {}

FirstNeverAdded(E, k) ==
  LET Never(e) == \A a \in life[e].a : a > k
  IN IF \E i \in 1..Len(E) : Never(E[i])
     THEN CHOOSE i \in 1..Len(E) : Never(E[i]) /\ \A j \in 1..(i - 1) : ~Never(E[j])
     ELSE 0

\* delete(E) naming a never added identity fails with ElementNotFound(first such index)
UnknownElementDelete ==
  (out.op = "delete" /\ FirstNeverAdded(out.E, sequence) # 0)
    => (out.res = "ElementNotFound" /\ out.idx = FirstNeverAdded(out.E, sequence) - 1)
\* proof(C, E) with a matching root naming a never added identity does the same
UnknownElementProof ==
  (out.op \in {"proof", "rproof"} /\ ~out.stale /\ FirstNeverAdded(out.E, out.k) # 0)
    => (out.res = "ElementNotFound" /\ out.idx = FirstNeverAdded(out.E, out.k) - 1)
\* C7: unknown element. In MMR, canonical SMT and live-SMT, delete(E), and
\* proof(C, E) with C.root equal to the instance's root, fail with
\* ElementNotFound(i) when E holds an identity never added as of the
\* instance's sequence, i being the index in E of the first such identity.
UnknownElement ==
  engine \in {"mmr", "smt", "live"} => (UnknownElementDelete /\ UnknownElementProof)

\* C8: stale commitment. proof(C, E) fails with InvalidCommitment whenever
\* C.root differs from the root of the instance it is called on; in particular
\* on a writer whose root an add or a delete has changed since C was returned
\* (in MMR and canonical SMT every add and delete of the open block does).
StaleCommitment ==
  /\ (out.op \in {"proof", "rproof"} /\ out.stale) => out.res = "InvalidCommitment"
  /\ (/\ out.op = "proof"
      /\ engine \in {"mmr", "smt"}
      /\ \E e \in Items : sequence \in life[e].a \cup life[e].d)
       => out.res = "InvalidCommitment"

\* a writer deleted a committed element and was then asked for a proof of an
\* identity it never saw, against its last commitment
StaleCommitmentWitness ==
  /\ out.op = "proof"
  /\ out.c = sequence - 1
  /\ \E e \in Items : sequence \in life[e].d /\ \E a \in life[e].a : a < sequence
  /\ FirstNeverAdded(out.E, sequence) # 0
  /\ out.stale
  /\ out.res = "InvalidCommitment"

\* C9: delete batches are all-or-nothing. In MMR, canonical SMT and live-SMT,
\* when delete(E) returns ElementNotFound no write has been issued: the store,
\* the pending batch, the root and the size are as before the call.
DeleteAllOrNothing ==
  [][(IsDelete /\ engine \in {"mmr", "smt", "live"} /\ out'.res = "ElementNotFound")
     => (db' = db /\ batch' = batch /\ root' = root /\ mmr_size' = mmr_size)]_vars

\* C9 in the engines that resolve the whole batch before they write
DeleteAllOrNothingResolved ==
  [][(IsDelete /\ engine \in {"mmr", "smt"} /\ out'.res = "ElementNotFound")
     => (db' = db /\ batch' = batch /\ root' = root /\ mmr_size' = mmr_size)]_vars

\* the step is a successful commit
IsCommit == out'.op = "commit" /\ out'.res = "ok" /\ sequence' # sequence

\* C10 as claimed: in the MMR, canonical SMT and append-only stores a
\* successful commit() adds 1 to the in-memory sequence and the value then
\* persisted under SEQUENCE is the new in-memory sequence.
CommitPersistsNewSequence ==
  [][(IsCommit /\ engine \in {"mmr", "smt", "ao"})
     => /\ sequence' = sequence + 1
        /\ RawGet(db', SeqKeyOf(engine)) = Some(BE8(sequence'))]_vars

\* C10 as amended: a successful commit() adds 1 to the in-memory sequence; the
\* MMR and canonical SMT stores then hold the new sequence under SEQUENCE, the
\* append-only store holds the sequence it has just committed (the new one
\* minus 1), the one its root pointer was written under.
CommitPersistsSequence ==
  [][(IsCommit /\ engine \in {"mmr", "smt", "ao"})
     => /\ sequence' = sequence + 1
        /\ engine \in {"mmr", "smt"} => RawGet(db', SeqKeyOf(engine)) = Some(BE8(sequence'))
        /\ engine = "ao" =>
             /\ RawGet(db', SeqKeyOf(engine)) = Some(BE8(sequence))
             /\ root_by_sequence(db', sequence) = Some(root)]_vars

\* the append-only store after its second commit: the writer is at sequence
\* 2 and SEQUENCE holds 1
CommitPersistsSequenceWitness ==
  /\ engine = "ao"
  /\ out.op = "commit"
  /\ out.res = "ok"
  /\ sequence = 2
  /\ RawGet(db, SEQUENCE_KEY) = Some(BE8(1))
  /\ IsSome(root_by_sequence(db, 1))

\* C11: new_with_sequence(db, k) panics when k exceeds the persisted sequence,
\* and every view it returns (MMR, canonical SMT and append-only stores) is at
\* a sequence commit() has already returned a commitment for.
ViewsAreCommitted ==
  (out.op = "open" /\ engine \in {"mmr", "smt", "ao"})
    => /\ out.k > StoredSequence(db, engine) => out.res = "panic"
       /\ out.res = "ok" => out.k \in Committed

\* the part of C11 the guard does give: a view is never opened past the
\* persisted sequence, and every committed sequence can be opened
ViewsUpToStored ==
  (out.op = "open" /\ engine \in {"mmr", "smt", "ao"})
    => /\ out.res = "panic" <=> out.k > StoredSequence(db, engine)
       /\ out.k \in Committed => out.res = "ok"

\* the two halves of a status
Created(st) == SubSeq(st, 1, 8)
Consumed(st) == SubSeq(st, 9, 16)

\* the step is an add call, named in out'
IsAdd == out'.op = "add" /\ calls' = calls + 1
Names(e) == \E i \in 1..Len(out'.E) : out'.E[i] = e

\* what a step does to the recorded status of an element added before it
StatusStep(e, allowed) ==
  (life[e].a # {} /\ allowed)
    => LET old == StatusOf(engine, db, root, sequence, e)
           new == StatusOf(engine, db', root', sequence', e)
       IN /\ Created(new) = Created(old)
          /\ Consumed(old) # MAXBYTES8 => Consumed(new) = Consumed(old)
          /\ Consumed(new) # MAXBYTES8 => FromLE8(Consumed(new)) >= FromLE8(Created(new))

Limbs == {0, 65535}
U64 == [1..4 -> Limbs] \cup {<<1, 0, 0, 0>>, <<256, 0, 0, 0>>, <<65534, 65535, 65535, 65535>>}
U64_MAX == [i \in 1..4 |-> 65535]
U64LE(a, b) ==
  \/ a = b
  \/ \E i \in 1..4 : a[i] < b[i] /\ \A j \in (i + 1)..4 : a[j] = b[j]
to_le_bytes(w) == [i \in 1..8 |-> IF i % 2 = 1 THEN w[(i + 1) \div 2] % 256 ELSE w[i \div 2] \div 256]
new_live_u64(c) == to_le_bytes(c) \o MAXBYTES8
\* a mark_as_dead that writes the consumed block over the created half
mark_as_dead_u64_created(st, d) == to_le_bytes(d) \o SubSeq(st, 9, 16)
mark_as_dead_u64(st, d) == SubSeq(st, 1, 8) \o to_le_bytes(d)
\* CellStatus::new_dead : sixteen 0xFF bytes, then both halves copied in
new_dead_u64(c, d) ==
  LET block_numbers == [i \in 1..16 |-> 255]
      created == [i \in 1..16 |-> IF i <= 8 THEN to_le_bytes(c)[i] ELSE block_numbers[i]]
  IN [i \in 1..16 |-> IF i > 8 THEN to_le_bytes(d)[i - 8] ELSE created[i]]

\* add at sequence c records new_live(c)
StatusOfAdd(c) ==
  /\ out' = QOut("status_add", <<>>, new_live_u64(c), 0, c, "none", FALSE, 0)
  /\ UNCHANGED <<engine, db, sequence, mmr_size, batch, root, commitments, sizes, calls, life, queries>>

\* delete at sequence d of an element added at sequence c <= d records
\* mark_as_dead(d) on the status add wrote
StatusOfDelete(c, d) ==
  /\ U64LE(c, d)
  /\ out' = QOut("status_delete", <<>>, mark_as_dead_u64(new_live_u64(c), d), 0, d, "none", FALSE, c)
  /\ UNCHANGED <<engine, db, sequence, mmr_size, batch, root, commitments, sizes, calls, life, queries>>

\* new_dead(c, d), and mark_as_dead(d) on new_live(c) in out.E
StatusOfNewDead(c, d) ==
  /\ out' = QOut("status_new_dead", mark_as_dead_u64(new_live_u64(c), d), new_dead_u64(c, d), 0, d, "none", FALSE, c)
  /\ UNCHANGED <<engine, db, sequence, mmr_size, batch, root, commitments, sizes, calls, life, queries>>

\* ---- branch-node codecs ----
\* slice[a..b] of Rust, on 1-based sequences
SliceInclusive(s, a, b) == SubSeq(s, a, b)
Slice(s, a, b) == SubSeq(s, a + 1, b)
SliceFrom(s, a) == Slice(s, a, Len(s))

\* MergeValue of append_only_smt and of sparse_merkle_tree
Value(h) == [tag |-> "Value", v |-> h]
MergeWithZeroAO(b, z, c, v) == [tag |-> "MergeWithZero", base_node |-> b, zero_bits |-> z, zero_count |-> c, value |-> v]
MergeWithZero(b, z, c) == [tag |-> "MergeWithZero", base_node |-> b, zero_bits |-> z, zero_count |-> c]
ShortCut(k, v, h) == [tag |-> "ShortCut", key |-> k, value |-> v, height |-> h]
BranchNode(l, r) == [left |-> l, right |-> r]

\* an encoding that writes the same first byte for every pair of child shapes
ChildBytes(c) ==
  IF c.tag = "Value" THEN c.v ELSE c.base_node \o c.zero_bits \o <<c.zero_count>> \o c.value
ao_branch_node_to_vec_untagged(node) == <<0>> \o ChildBytes(node.left) \o ChildBytes(node.right)

\* smt_append_only::serde::branch_node_to_vec
ao_branch_node_to_vec(node) ==
  LET l == node.left
      r == node.right
  IN CASE l.tag = "Value" /\ r.tag = "Value" -> <<0>> \o l.v \o r.v
       [] l.tag = "Value" /\ r.tag = "MergeWithZero" ->
            <<1>> \o l.v \o r.base_node \o r.zero_bits \o <<r.zero_count>> \o r.value
       [] l.tag = "MergeWithZero" /\ r.tag = "Value" ->
            <<2>> \o l.base_node \o l.zero_bits \o <<l.zero_count>> \o l.value \o r.v
       [] l.tag = "MergeWithZero" /\ r.tag = "MergeWithZero" ->
            <<3>> \o l.base_node \o l.zero_bits \o <<l.zero_count>> \o l.value
                  \o r.base_node \o r.zero_bits \o <<r.zero_count>> \o r.value

\* smt_append_only::serde::slice_to_branch_node
ao_slice_to_branch_node(slice) ==
  CASE slice[1] = 0 -> BranchNode(Value(Slice(slice, 1, 33)), Value(Slice(slice, 33, 65)))
    [] slice[1] = 1 ->
         BranchNode(Value(Slice(slice, 1, 33)),
                    MergeWithZeroAO(Slice(slice, 33, 65), Slice(slice, 65, 97), slice[97 + 1], SliceFrom(slice, 98)))
    [] slice[1] = 2 ->
         BranchNode(MergeWithZeroAO(Slice(slice, 1, 33), Slice(slice, 33, 65), slice[65 + 1], Slice(slice, 66, 98)),
                    Value(SliceFrom(slice, 98)))
    [] slice[1] = 3 ->
         BranchNode(MergeWithZeroAO(Slice(slice, 1, 33), Slice(slice, 33, 65), slice[65 + 1], Slice(slice, 66, 98)),
                    MergeWithZeroAO(Slice(slice, 98, 130), Slice(slice, 130, 162), slice[162 + 1], SliceFrom(slice, 163)))
    [] OTHER -> "unreachable"

\* smt_live::store::SMT_KEY, a one-byte key prefix
SMT_KEY == <<0>>

\* smt_live::serde::branch_node_to_vec
live_branch_node_to_vec(node) ==
  LET l == node.left
      r == node.right
  IN CASE l.tag = "Value" /\ r.tag = "Value" -> SMT_KEY \o <<0>> \o l.v \o r.v
       [] l.tag = "Value" /\ r.tag = "MergeWithZero" ->
            SMT_KEY \o <<1>> \o l.v \o r.base_node \o r.zero_bits \o <<r.zero_count>>
       [] l.tag = "MergeWithZero" /\ r.tag = "Value" ->
            SMT_KEY \o <<2>> \o l.base_node \o l.zero_bits \o <<l.zero_count>> \o r.v
       [] l.tag = "MergeWithZero" /\ r.tag = "MergeWithZero" ->
            SMT_KEY \o <<3>> \o l.base_node \o l.zero_bits \o <<l.zero_count>>
                    \o r.base_node \o r.zero_bits \o <<r.zero_count>>
       [] l.tag = "Value" /\ r.tag = "ShortCut" ->
            SMT_KEY \o <<4>> \o l.v \o r.key \o r.value \o <<r.height>>
       [] l.tag = "ShortCut" /\ r.tag = "Value" ->
            SMT_KEY \o <<5>> \o l.key \o l.value \o <<l.height>> \o r.v
       [] l.tag = "ShortCut" /\ r.tag = "ShortCut" ->
            SMT_KEY \o <<6>> \o l.key \o l.value \o <<l.height>> \o r.key \o r.value \o <<r.height>>
       [] l.tag = "MergeWithZero" /\ r.tag = "ShortCut" ->
            SMT_KEY \o <<7>> \o l.base_node \o l.zero_bits \o <<l.zero_count>>
                    \o r.key \o r.value \o <<r.height>>
       [] l.tag = "ShortCut" /\ r.tag = "MergeWithZero" ->
            SMT_KEY \o <<8>> \o l.key \o l.value \o <<l.height>>
                    \o r.base_node \o r.zero_bits \o <<r.zero_count>>

\* smt_live::serde::slice_to_branch_node
live_slice_to_branch_node(slice) ==
  CASE slice[1 + 1] = 0 -> BranchNode(Value(Slice(slice, 2, 34)), Value(Slice(slice, 34, 66)))
    [] slice[1 + 1] = 1 ->
         BranchNode(Value(Slice(slice, 2, 34)),
                    MergeWithZero(Slice(slice, 34, 66), Slice(slice, 66, 98), slice[98 + 1]))
    [] slice[1 + 1] = 2 ->
         BranchNode(MergeWithZero(Slice(slice, 2, 34), Slice(slice, 34, 66), slice[66 + 1]),
                    Value(Slice(slice, 67, 99)))
    [] slice[1 + 1] = 3 ->
         BranchNode(MergeWithZero(Slice(slice, 2, 34), Slice(slice, 34, 66), slice[66 + 1]),
                    MergeWithZero(Slice(slice, 67, 99), Slice(slice, 99, 131), slice[131 + 1]))
    [] slice[1 + 1] = 4 ->
         BranchNode(Value(Slice(slice, 2, 34)),
                    ShortCut(Slice(slice, 34, 66), Slice(slice, 66, 98), slice[98 + 1]))
    [] slice[1 + 1] = 5 ->
         BranchNode(ShortCut(Slice(slice, 2, 34), Slice(slice, 34, 66), slice[66 + 1]),
                    Value(Slice(slice, 67, 99)))
    [] slice[1 + 1] = 6 ->
         BranchNode(ShortCut(Slice(slice, 2, 34), Slice(slice, 34, 66), slice[66 + 1]),
                    ShortCut(Slice(slice, 67, 99), Slice(slice, 99, 131), slice[131 + 1]))
    [] slice[1 + 1] = 7 ->
         BranchNode(MergeWithZero(Slice(slice, 2, 34), Slice(slice, 34, 66), slice[66 + 1]),
                    ShortCut(Slice(slice, 67, 99), Slice(slice, 99, 131), slice[131 + 1]))
    [] slice[1 + 1] = 8 ->
         BranchNode(ShortCut(Slice(slice, 2, 34), Slice(slice, 34, 66), slice[66 + 1]),
                    MergeWithZero(Slice(slice, 67, 99), Slice(slice, 99, 131), slice[131 + 1]))
    [] OTHER -> "unreachable"

\* sample field values: a 32-byte H256 whose bytes all differ, and children
\* whose fields all differ, built from a base byte
H256Of(n) == [i \in 1..32 |-> (n + 7 * i) % 256]
ChildBases == {0, 1, 200}
AOChildren(n) ==
  {Value(H256Of(n)), MergeWithZeroAO(H256Of(n + 1), H256Of(n + 2), (n + 3) % 256, H256Of(n + 4))}
LiveChildren(n) ==
  {Value(H256Of(n)), MergeWithZero(H256Of(n + 1), H256Of(n + 2), (n + 3) % 256),
   ShortCut(H256Of(n + 5), H256Of(n + 6), (n + 55) % 256)}
AONodes == {BranchNode(l, r) : l \in UNION {AOChildren(n) : n \in ChildBases},
                               r \in UNION {AOChildren(n + 20) : n \in ChildBases}}
LiveNodes == {BranchNode(l, r) : l \in UNION {LiveChildren(n) : n \in ChildBases},
                                 r \in UNION {LiveChildren(n + 20) : n \in ChildBases}}

\* encode a node and decode the bytes again
CodecAO(node) ==
  /\ out' = QOut("codec_ao", node, ao_slice_to_branch_node(ao_branch_node_to_vec(node)), 0, 0, "none", FALSE,
                 Len(ao_branch_node_to_vec(node)))
  /\ UNCHANGED <<engine, db, sequence, mmr_size, batch, root, commitments, sizes, calls, life, queries>>
CodecLive(node) ==
  /\ out' = QOut("codec_live", node, live_slice_to_branch_node(live_branch_node_to_vec(node)), 0, 0, "none", FALSE,
                 Len(live_branch_node_to_vec(node)))
  /\ UNCHANGED <<engine, db, sequence, mmr_size, batch, root, commitments, sizes, calls, life, queries>>

\* one node per pair of child shapes
AOChildShapes == {BranchNode(l, r) : l \in AOChildren(0), r \in AOChildren(20)}
LiveChildShapes == {BranchNode(l, r) : l \in LiveChildren(0), r \in LiveChildren(20)}

\* what makes the decoders panic: a fixed range slice[a..hi] or an index
\* slice[hi - 1] past the end, and an open range slice[a..] that is not 32
\* bytes long (try_into of [u8; 32])
Reads(slice, hi) == hi <= Len(slice)
ReadsToEnd(slice, a) == Len(slice) - a = 32

\* smt_append_only::serde::slice_to_branch_node panics
ao_slice_panics(slice) ==
  IF ~Reads(slice, 1) THEN TRUE
  ELSE CASE slice[1] = 0 -> ~Reads(slice, 65)
         [] slice[1] = 1 -> ~(Reads(slice, 98) /\ ReadsToEnd(slice, 98))
         [] slice[1] = 2 -> ~(Reads(slice, 98) /\ ReadsToEnd(slice, 98))
         [] slice[1] = 3 -> ~(Reads(slice, 163) /\ ReadsToEnd(slice, 163))
         [] OTHER -> TRUE

\* smt_live::serde::slice_to_branch_node panics
live_slice_panics(slice) ==
  IF ~Reads(slice, 2) THEN TRUE
  ELSE CASE slice[2] = 0 -> ~Reads(slice, 66)
         [] slice[2] \in {1, 4} -> ~Reads(slice, 99)
         [] slice[2] \in {2, 5} -> ~Reads(slice, 99)
         [] slice[2] \in {3, 6, 7, 8} -> ~Reads(slice, 132)
         [] OTHER -> TRUE

\* stored bytes handed to a decoder: an encoding as written, cut short by one
\* byte or down to its tag, one or 65 bytes too long, or with a tag that no
\* shape has
Damaged(enc, t) ==
  {enc, SubSeq(enc, 1, Len(enc) - 1), SubSeq(enc, 1, t), enc \o <<0>>, enc \o SubSeq(enc, 1, 65),
   [enc EXCEPT ![t] = 9]}
AOSlices == UNION {Damaged(ao_branch_node_to_vec(n), 1) : n \in AOChildShapes}
LiveSlices == UNION {Damaged(live_branch_node_to_vec(n), 2) : n \in LiveChildShapes}

\* a decode call: out.kind tells whether it panicked or returned a node
DecodeAO(slice) ==
  /\ out' = QOut("decode_ao", slice,
                 IF ao_slice_panics(slice) THEN <<>> ELSE ao_slice_to_branch_node(slice),
                 0, 0, IF ao_slice_panics(slice) THEN "panic" ELSE "node", FALSE, Len(slice))
  /\ UNCHANGED <<engine, db, sequence, mmr_size, batch, root, commitments, sizes, calls, life, queries>>
DecodeLive(slice) ==
  /\ out' = QOut("decode_live", slice,
                 IF live_slice_panics(slice) THEN <<>> ELSE live_slice_to_branch_node(slice),
                 0, 0, IF live_slice_panics(slice) THEN "panic" ELSE "node", FALSE, Len(slice))
  /\ UNCHANGED <<engine, db, sequence, mmr_size, batch, root, commitments, sizes, calls, life, queries>>

NextPure ==
  \/ \E c \in U64 : StatusOfAdd(c)
  \/ \E c \in U64, d \in U64 : StatusOfDelete(c, d)
  \/ \E c \in U64, d \in U64 : StatusOfNewDead(c, d)
  \/ \E node \in AONodes : CodecAO(node)
  \/ \E node \in LiveNodes : CodecLive(node)
  \/ \E slice \in AOSlices : DecodeAO(slice)
  \/ \E slice \in LiveSlices : DecodeLive(slice)
SpecPure == Init /\ [][NextPure]_vars

\* C13: the status add records is live and the status a successful delete
\* records is not live, at every sequence number up to the largest 64-bit one.
LiveAfterAddDeadAfterDelete ==
  /\ out.op = "status_add" => is_live(out.res)
  /\ out.op = "status_delete" => ~is_live(out.res)

\* what the code does: the status after delete is live again exactly when the
\* delete happens at the largest 64-bit sequence
DeadUnlessMaxSequence ==
  /\ out.op = "status_add" => is_live(out.res)
  /\ out.op = "status_delete" => (is_live(out.res) <=> out.k = U64_MAX)

\* the child shapes of a node, as a pair
Shape(node) == <<node.left.tag, node.right.tag>>

\* C14: node codec round trip. For every branch node of the append-only
\* scheme (4 child-shape combinations) and of the live-SMT scheme (9
\* combinations), decoding the encoded node gives the node back.
CodecRoundTrip ==
  out.op \in {"codec_ao", "codec_live"} => out.res = out.E

\* one witness per scheme: the longest encodings, 195 bytes with two
\* merged-with-zero children and 132 bytes with a shortcut and a
\* merged-with-zero child, decoded back to the node
CodecRoundTripWitness ==
  out.op = "codec_ao" /\ Shape(out.E) = <<"MergeWithZero", "MergeWithZero">> /\ out.c = 195 /\ out.res = out.E
CodecRoundTripLiveWitness ==
  out.op = "codec_live" /\ Shape(out.E) = <<"ShortCut", "MergeWithZero">> /\ out.c = 132 /\ out.res = out.E

\* every child-shape combination is exercised: 4 and 9
AllShapesCovered ==
  /\ Cardinality({Shape(n) : n \in AONodes}) = 4
  /\ Cardinality({Shape(n) : n \in LiveNodes}) = 9

\* ---- a writer and a read view on one database, step by step ----
StoreKeys ==
  IF engine = "mmr" THEN {PosKey(0), ElementKey(1)} ELSE {LeafKey(1), branch_key_to_vec(0, 0)}
StoreValues == {<<7>>, <<8>>}

InitStore ==
  /\ engine \in {"mmr", "smt"}
  /\ db = EmptyDb
  /\ sequence = 0
  /\ mmr_size = 0
  /\ batch = EmptyBatch
  /\ root = ZERO_H
  /\ commitments = <<>>
  /\ sizes = <<>>
  /\ out = Out("new", <<>>, "ok", 0)
  /\ calls = 0
  /\ life = [e \in Items |-> [a |-> {}, d |-> {}]]
  /\ queries = 0

\* DefaultStore::put by the writer
PutStep(key, v) ==
  /\ calls < MaxSteps
  /\ calls' = calls + 1
  /\ db' = StorePut(db, sequence, key, v)
  /\ UNCHANGED <<engine, sequence, mmr_size, batch, root, commitments, sizes, life, queries, out>>

\* remove_branch / remove_leaf of the canonical SMT store: an empty value
\* under key ++ BE(sequence)
RemoveStep(key) ==
  /\ engine = "smt"
  /\ calls < MaxSteps
  /\ calls' = calls + 1
  /\ db' = IF key = LeafKey(1) THEN remove_leaf(db, sequence, 1) ELSE remove_branch(db, sequence, 0, 0)
  /\ UNCHANGED <<engine, sequence, mmr_size, batch, root, commitments, sizes, life, queries, out>>

\* DefaultStore::commit by the writer
CommitStep ==
  /\ calls < MaxSteps
  /\ sequence < MaxSeq
  /\ calls' = calls + 1
  /\ db' = store_commit(db, sequence, engine)
  /\ sequence' = sequence + 1
  /\ UNCHANGED <<engine, mmr_size, batch, root, commitments, sizes, life, queries, out>>

\* new_with_sequence(db, k) by a reader; out.E is what its get returns for
\* each key at that moment, out.c the writer's sequence at that moment
OpenStep(k) ==
  /\ k <= StoredSequence(db, engine)
  /\ out' = QOut("view", [key \in StoreKeys |-> StoreGet(db, k, key)], "ok", 0, k, "none", FALSE, sequence)
  /\ UNCHANGED <<engine, db, sequence, mmr_size, batch, root, commitments, sizes, life, queries, calls>>

\* DefaultStore::get by the reader, on its view
GetStep(key) ==
  /\ out.op \in {"view", "get"}
  /\ out' = [out EXCEPT !.op = "get", !.idx = key, !.res = StoreGet(db, out.k, key)]
  /\ UNCHANGED <<engine, db, sequence, mmr_size, batch, root, commitments, sizes, life, queries, calls>>

NextStore ==
  \/ \E key \in StoreKeys, v \in StoreValues : PutStep(key, v)
  \/ \E key \in StoreKeys : RemoveStep(key)
  \/ CommitStep
  \/ \E k \in 0..MaxSeq : OpenStep(k)
  \/ \E key \in StoreKeys : GetStep(key)
SpecStore == InitStore /\ [][NextStore]_vars

\* C15: reader/writer isolation. A view opened at a committed sequence k
\* below the writer's sequence reads, after any interleaving of the writer's
\* put, remove and commit steps with its own gets, what it read when it was
\* opened.
ReaderWriterIsolation ==
  (out.op \in {"view", "get"} /\ out.k < out.c)
    => /\ \A key \in StoreKeys : StoreGet(db, out.k, key) = out.E[key]
       /\ out.op = "get" => out.res = out.E[out.idx]

\* a view opened at sequence 0 when the writer was at 1 read a value, the
\* writer then overwrote and committed the key, and the view's get still
\* returns the first value
ReaderWriterIsolationWitness ==
  /\ out.op = "get" /\ out.k = 0 /\ out.c = 1
  /\ out.res = Some(<<7>>)
  /\ sequence = 2
  /\ StoreGet(db, 1, out.idx) = Some(<<8>>)

\* C16: in the live-SMT engine the proof returned by proof() holds, for each
\* requested element, a creation proof and a consumption proof, the latter
\* present if and only if the element has been consumed (its status is not live).
LiveProofHoldsConsumption ==
  (engine = "live" /\ out.op = "proof" /\ out.res = "ok")
    => LET P == LiveProof(Writer, CommitmentOf(out.c), out.E).proof
       IN /\ Len(P.inner) = Len(out.E)
          /\ \A i \in 1..Len(out.E) :
                life[out.E[i]].a # {}
                  => (IsSome(P.inner[i][2]) <=> ~is_live(StatusAt(out.k, out.E[i])))

\* the proof, the pairs and the creation leaf of a recorded live-SMT verify
LVProof == LiveProof(ViewAt(out.k), CommitmentOf(out.k), out.idx).proof
LVPairs == PairsOf(out.kind, out.k, out.E)
LVCreated(i) == [x \in {LVPairs[i][1]} |-> BlockToH256(SubSeq(LVPairs[i][2], 1, 8))]
\* element i is given a non-live status and no consumption proof or no
\* consumption commitment comes with it
NonLiveUnproved(i) ==
  /\ ~is_live(LVPairs[i][2])
  /\ \/ i > Len(LVProof.inner)
     \/ ~IsSome(LVProof.inner[i][2])
     \/ ~IsSome(out.c.cc)
\* the creation proof of element i does not authenticate against the root of
\* its creation commitment
CreationFails(i) ==
  /\ i <= Len(LVProof.inner)
  /\ ~smt_proof_verify(SmtRekey(LVProof.inner[i][1], LVPairs[i][1]), CommitmentOf(out.k).root, LVCreated(i))

\* C17: live-SMT verify returns Ok(false), never Err and never Ok(true), when
\* some element is given a non-live status without a consumption proof or a
\* consumption commitment, or when the creation proof of some element does
\* not authenticate against its commitment root.
LiveVerifyRejects ==
  (/\ out.op = "lverify"
   /\ ~out.stale
   /\ \E i \in 1..Len(out.E) : NonLiveUnproved(i) \/ CreationFails(i))
  => out.res = "false"

\* the same for the elements the loop reaches: those that have both a proof
\* entry and a commitment entry
LiveVerifyRejectsZipped ==
  (/\ out.op = "lverify"
   /\ ~out.stale
   /\ \/ out.c.n # Len(LVProof.inner)
      \/ \E i \in 1..Min(Len(out.E), out.c.n) : NonLiveUnproved(i) \/ CreationFails(i))
  => out.res = "false"

\* C18: MMR verify returns Err(InvalidProof) whenever the number of supplied
\* pairs differs from the number of positions in the proof, whatever the
\* commitment and the statuses are: no Merkle check decides the outcome.
MMRCountMismatch ==
  (out.op = "mverify" /\ ~out.stale /\ Len(out.E) # Len(out.idx)) => out.res = "InvalidProof"

\* a proof for one element is verified with two pairs, the first of them the
\* genuine pair, against the commitment the proof was made for; alone the
\* first pair verifies
MMRCountMismatchWitness ==
  /\ out.op = "mverify" /\ ~out.stale /\ out.res = "InvalidProof"
  /\ out.idx = <<2>> /\ out.E = <<2, 3>> /\ out.kind = "actual" /\ out.c = out.k
  /\ MMRVerify(MMRProof(ViewAt(out.k), CommitmentOf(out.k), <<2>>).proof, CommitmentOf(out.k),
               ActualPairs(out.k, <<2>>)) = "true"

\* C19: in the canonical SMT engine the all-zero status is reserved for
\* absent leaves: after any add, delete and commit calls starting at sequence
\* 0, no identity that has been added has a stored status equal to the
\* all-zero status, so an added element is never read back as absent.
ZeroStatusReserved ==
  engine = "smt"
    => \A e \in Items :
         life[e].a # {} => smt_get(root, db, sequence, e, ZERO_CELL_STATUS) # ZERO_CELL_STATUS

\* ---- every operation of a writer, the adapter's get and put included ----
\* DefaultStore::put called on the writer's store (the MMR store's put is
\* public); the key is the store's own SEQUENCE key or an unused key
AdapterPut(key, v) ==
  /\ engine = "mmr"
  /\ calls < MaxCalls
  /\ calls' = calls + 1
  /\ queries' = 0
  /\ db' = StorePut(db, sequence, key, v)
  /\ out' = QOut("put", <<>>, "ok", key, sequence, "none", FALSE, v)
  /\ UNCHANGED <<engine, sequence, mmr_size, batch, root, commitments, sizes, life>>

\* DefaultStore::get called on the writer's store
AdapterGet(key) ==
  /\ engine \in {"mmr", "smt"}
  /\ queries < MaxQueries
  /\ queries' = queries + 1
  /\ out' = QOut("get", <<>>, StoreGet(db, sequence, key), key, sequence, "none", FALSE, 0)
  /\ UNCHANGED <<engine, db, sequence, mmr_size, batch, root, commitments, sizes, calls, life>>

MMR_SIZE_KEY == <<3>>
AdapterKeys == {SeqKeyOf(engine), MMR_SIZE_KEY}

NextOps ==
  \/ \E E \in AddBatches : Add(E)
  \/ \E E \in DeleteBatches : Delete(E)
  \/ Commit
  \/ \E key \in AdapterKeys, v \in {BE8(2), BE8(3)} : AdapterPut(key, v)
  \/ \E key \in AdapterKeys : AdapterGet(key)
  \/ \E j \in 1..Len(commitments), E \in ProofBatches : WriterProof(commitments[j], E)
  \/ \E k \in Committed \cap {Len(commitments) - 1} :
       \E E \in ProofBatches, kind \in {"actual", "flipped"} : VerifyCall(k, E, CommitmentOf(k), kind)
SpecOps == Init /\ [][NextOps]_vars

\* C20: commit is the only operation that changes the sequence. A step of
\* add, delete, proof, verify, get or put, successful or failed, leaves the
\* writer's in-memory sequence and the persisted SEQUENCE value as they were.
OnlyCommitChangesSequence ==
  [][out'.op # "commit"
       => (sequence' = sequence /\ StoredSequence(db', engine) = StoredSequence(db, engine))]_vars

\* after one commit a put was made to the SEQUENCE key itself with another
\* sequence as its value: it is stored under SEQUENCE ++ BE(1), and both
\* sequences are still 1
OnlyCommitChangesSequenceWitness ==
  /\ out.op = "put" /\ out.idx = SeqKeyOf(engine)
  /\ sequence = 1
  /\ StoredSequence(db, engine) = 1
  /\ RawGet(db, PhysKey(SeqKeyOf(engine), 1)) = Some(BE8(2))

\* the physical key under which the open block records element e
BlockKey(e, sq) ==
  IF engine = "mmr" THEN PhysKey(ElementKey(e), sq) ELSE PhysKey(LeafKey(e), sq)

\* C21: each successful commit() of the MMR, canonical SMT and live-SMT
\* engines returns (root before advancing, sequence before advancing): the
\* sequence is the one under which the block's adds and deletes were written,
\* it is 0 for the first commit and one more than the previous commit's, and
\* the writer is one sequence further afterwards.
CommitReturnsSnapshot ==
  [][(engine \in {"mmr", "smt", "live"} /\ out'.op = "commit" /\ out'.res = "ok")
       => (LET c == commitments'[Len(commitments')]
           IN /\ Len(commitments') = Len(commitments) + 1
              /\ c.root = InstRoot(Writer)[1]
              /\ c.sequence = sequence
              /\ c.sequence = Len(commitments)
              /\ Len(commitments) > 0 => c.sequence = commitments[Len(commitments)].sequence + 1
              /\ sequence' = sequence + 1
              /\ \A e \in Items :
                    sequence \in life[e].a \cup life[e].d => BlockKey(e, c.sequence) \in DOMAIN db')]_vars

\* two commits were made, the second closing a block with an add in it: the
\* commitments carry sequences 0 and 1 and the add's record is under 1
CommitReturnsSnapshotWitness ==
  /\ engine \in {"mmr", "smt", "live"}
  /\ out.op = "commit" /\ out.res = "ok"
  /\ Len(commitments) = 2
  /\ commitments[1].sequence = 0 /\ commitments[2].sequence = 1
  /\ sequence = 2
  /\ \E e \in Items : 1 \in life[e].a /\ BlockKey(e, 1) \in DOMAIN db

\* get_leaf / get_branch of the canonical SMT store for the keys of StoreKeys
SmtStoreRead(d, t, key) == IF key = LeafKey(1) THEN get_leaf(d, t, 1) ELSE get_branch(d, t, 0, 0)
\* the step is remove_leaf / remove_branch of key at the writer's sequence
RemovesKey(key) ==
  /\ calls' = calls + 1 /\ sequence' = sequence
  /\ db' = IF key = LeafKey(1) THEN remove_leaf(db, sequence, 1) ELSE remove_branch(db, sequence, 0, 0)
\* the step writes nothing under key
LeavesKey(key) == \A t \in 0..MaxSeq : RawGet(db', PhysKey(key, t)) = RawGet(db, PhysKey(key, t))

\* C22: deletion preserves history in the canonical SMT store. After
\* remove_leaf or remove_branch of K at sequence s, get_leaf / get_branch of K
\* as of every sequence >= s is absent, and stays so until K is written
\* again, and as of every sequence < s it is still the value K had there.
DeletionPreservesHistory ==
  [][engine = "smt"
       => (\A key \in StoreKeys :
             /\ RemovesKey(key)
                  => /\ \A t \in sequence..MaxSeq : SmtStoreRead(db', t, key) = None
                     /\ \A t \in 0..(sequence - 1) : SmtStoreRead(db', t, key) = SmtStoreRead(db, t, key)
             /\ LeavesKey(key)
                  => \A t \in 0..MaxSeq : SmtStoreRead(db', t, key) = SmtStoreRead(db, t, key))]_vars

\* a leaf written at sequence 0 and removed at sequence 1: absent as of 1,
\* still there as of 0
DeletionPreservesHistoryWitness ==
  /\ engine = "smt"
  /\ sequence = 1
  /\ RawGet(db, PhysKey(LeafKey(1), 1)) = Some(<<>>)
  /\ get_leaf(db, 1, 1) = None
  /\ get_leaf(db, 0, 1) = Some(<<7>>)

\* C23: read-your-writes before commit. After put(K, v) at the adapter's
\* current, uncommitted sequence its get(K) returns v, also when v replaces
\* a value put at the same sequence; and an MMR delete of elements added
\* earlier in the same uncommitted block finds their index records.
ReadYourWrites ==
  [][/\ out'.op = "put" => StoreGet(db', sequence', out'.idx) = Some(out'.c)
     /\ (out'.op = "get" /\ out.op = "put" /\ out'.idx = out.idx) => out'.res = Some(out.c)
     /\ (/\ engine = "mmr"
         /\ out'.op = "delete"
         /\ \A i \in 1..Len(out'.E) : sequence \in life[out'.E[i]].a)
          => out'.res = "ok"]_vars

\* a get that follows two puts to one key, both at sequence 0, and returns
\* the second value
ReadYourWritesWitness ==
  /\ out.op = "get" /\ out.res = Some(BE8(3))
  /\ sequence = 0 /\ calls = 2
  /\ DOMAIN db = {PhysKey(out.idx, 0)}

\* an MMR delete of an element added in the same, first, uncommitted block
ReadYourWritesDeleteWitness ==
  /\ engine = "mmr" /\ out.op = "delete" /\ out.res = "ok"
  /\ sequence = 0
  /\ \A i \in 1..Len(out.E) : 0 \in life[out.E[i]].a

\* ------------------------------------------------------ reopening a writer
\* DefaultStore::new on the store the writer has left: the sequence is the
\* value under SEQUENCE, 0 when it is absent
new_sequence(d, eng) == StoredSequence(d, eng)

\* the root the reopened tree starts from: the append-only caller resolves
\* root_by_sequence(store.sequence()), the canonical SMT rebuilds it from the
\* top branch, the MMR computes it from mmr_size on demand
new_root(d, eng) ==
  CASE eng = "ao" -> UnwrapOr(root_by_sequence(d, new_sequence(d, eng)), ZERO_H)
    [] eng = "smt" -> smt_new_root(d, new_sequence(d, eng))
    [] OTHER -> ZERO_H

\* the writer is dropped and a new one is built with new(db); the MMR writer
\* is reopened with the mmr_size it had, between two blocks (an empty batch)
Reopen ==
  /\ engine \in {"mmr", "smt", "ao"}
  /\ engine = "mmr" => batch = EmptyBatch
  /\ calls < MaxCalls
  /\ calls' = calls + 1
  /\ queries' = 0
  /\ sequence' = new_sequence(db, engine)
  /\ root' = new_root(db, engine)
  /\ out' = QOut("reopen", <<>>, "ok", 0, sequence, "none", FALSE, 0)
  /\ UNCHANGED <<engine, db, mmr_size, batch, commitments, sizes, life>>

\* the writer's operations, and the writer reopened on its store
NextReopen ==
  \/ \E E \in AddBatches : Add(E)
  \/ \E E \in DeleteBatches : Delete(E)
  \/ Commit
  \/ Reopen

SpecReopen == Init /\ [][NextReopen]_vars

\* the sequences commit() has returned a commitment for
CommittedSequences == {commitments[j].sequence : j \in 1..Len(commitments)}

\* C24: new(store) yields sequence 0 when SEQUENCE is absent and the
\* persisted value otherwise, and so a writer reopened after n commits (MMR,
\* canonical SMT, append-only SMT) continues at a sequence strictly greater
\* than every sequence a committed root has been written under.
ReopenContinuesAhead ==
  [][out'.op = "reopen"
     => /\ RawGet(db, SeqKeyOf(engine)) = None => sequence' = 0
        /\ IsSome(RawGet(db, SeqKeyOf(engine))) => BE8(sequence') = RawGet(db, SeqKeyOf(engine))[1]
        /\ \A k \in CommittedSequences : sequence' > k]_vars

\* the part of C24 the code gives in every store: the reopened writer is at
\* the persisted sequence; in the MMR and canonical SMT stores that is past
\* every committed sequence, in the append-only store it is the last
\* committed sequence itself
ReopenAtPersisted ==
  [][out'.op = "reopen"
     => /\ RawGet(db, SeqKeyOf(engine)) = None => sequence' = 0
        /\ IsSome(RawGet(db, SeqKeyOf(engine))) => BE8(sequence') = RawGet(db, SeqKeyOf(engine))[1]
        /\ engine \in {"mmr", "smt"} => \A k \in CommittedSequences : sequence' > k
        /\ engine = "ao" => \A k \in CommittedSequences : sequence' >= k]_vars

\* C25: every commit(root) of the append-only store persists a fresh
\* sequence-to-root pointer and overwrites none, so root_by_sequence(k) keeps
\* returning the root passed to the commit at k, across later commits and
\* reopens with new().
RootPointerKept ==
  [][engine = "ao"
     => \A k \in 0..MaxSeq :
          IsSome(root_by_sequence(db, k)) => root_by_sequence(db', k) = root_by_sequence(db, k)]_vars

\* ------------------------------------- the append-only store, call by call
\* StoreWriteOps of the append-only store: plain puts under the node key
ao_insert_branch(d, node_key, branch) == RawPut(d, node_key, ao_branch_node_to_vec(branch))
ao_insert_leaf(d, leaf_key, leaf) == RawPut(d, leaf_key, leaf)
ao_remove_branch(d, node_key) == RawPut(d, node_key, <<>>)
ao_remove_leaf(d, leaf_key) == RawPut(d, leaf_key, <<>>)

\* StoreReadOps::get_branch of the append-only store
ao_get_branch(d, branch_key) ==
  LET o == RawGet(d, branch_key)
  IN IF IsSome(o) /\ o[1] # <<>> THEN Some(ao_slice_to_branch_node(o[1])) ELSE None

AoBranchKeys == {H256Of(40), H256Of(41)}
AoLeafKeys == {H256Of(50), H256Of(51)}
AoBranches ==
  {BranchNode(Value(H256Of(0)), Value(H256Of(20))),
   BranchNode(Value(H256Of(1)), MergeWithZeroAO(H256Of(21), H256Of(22), 23, H256Of(24)))}
AoLeaves == {new_live(0), new_dead(0, 1)}

InitAoStore ==
  /\ engine = "ao"
  /\ db = EmptyDb
  /\ sequence = 0
  /\ mmr_size = 0
  /\ batch = EmptyBatch
  /\ root = ZERO_H
  /\ commitments = <<>>
  /\ sizes = <<>>
  /\ out = Out("new", <<>>, "ok", 0)
  /\ calls = 0
  /\ life = [e \in Items |-> [a |-> {}, d |-> {}]]
  /\ queries = 0

AoStoreStep(op, key, d) ==
  /\ calls < MaxSteps
  /\ calls' = calls + 1
  /\ db' = d
  /\ out' = QOut(op, <<>>, "ok", key, sequence, "none", FALSE, 0)
  /\ UNCHANGED <<engine, sequence, mmr_size, batch, root, commitments, sizes, life, queries>>

InsertBranchStep(key, branch) == AoStoreStep("insert_branch", key, ao_insert_branch(db, key, branch))
InsertLeafStep(key, leaf) == AoStoreStep("insert_leaf", key, ao_insert_leaf(db, key, leaf))
RemoveBranchStep(key) == AoStoreStep("remove_branch", key, ao_remove_branch(db, key))
RemoveLeafStep(key) == AoStoreStep("remove_leaf", key, ao_remove_leaf(db, key))

\* get_branch on the store as it is
GetBranchStep(key) ==
  /\ out.op # "get_branch"
  /\ out' = QOut("get_branch", <<>>, ao_get_branch(db, key), key, sequence, "none", FALSE, 0)
  /\ UNCHANGED <<engine, db, sequence, mmr_size, batch, root, commitments, sizes, life, queries, calls>>

NextAoStore ==
  \/ \E key \in AoBranchKeys, branch \in AoBranches : InsertBranchStep(key, branch)
  \/ \E key \in AoLeafKeys, leaf \in AoLeaves : InsertLeafStep(key, leaf)
  \/ \E key \in AoBranchKeys : RemoveBranchStep(key)
  \/ \E key \in AoLeafKeys : RemoveLeafStep(key)
  \/ \E key \in AoBranchKeys : GetBranchStep(key)

SpecAoStore == InitAoStore /\ [][NextAoStore]_vars

\* C26: the append-only store never overwrites a node's physical key. Once
\* a non-empty value is stored under a branch or leaf key, no insert_branch,
\* insert_leaf, remove_branch or remove_leaf replaces it with another value.
NodeKeyNeverOverwritten ==
  [][\A key \in AoBranchKeys \cup AoLeafKeys :
       (IsSome(RawGet(db, key)) /\ RawGet(db, key)[1] # <<>>)
         => RawGet(db', key) = RawGet(db, key)]_vars

\* what the store operations do keep: a key once written stays present, and
\* only the operation that names a key changes what is stored under it
NodeKeyStaysPresent ==
  [][\A key \in AoBranchKeys \cup AoLeafKeys :
       /\ IsSome(RawGet(db, key)) => IsSome(RawGet(db', key))
       /\ RawGet(db', key) # RawGet(db, key) => out'.idx = key]_vars

\* the index record of e as the writer reads it
IndexRecord(d, s, e) == StoreGet(d, s, ElementKey(e))[1]

\* C27: MMR delete is an in-place update. For every deleted element the leaf
\* at its recorded position becomes H(identity, status consumed at the
\* current sequence), the index record keeps its position and its
\* created_by_block, and the number of leaves and the positions recorded for
\* all other elements do not change.
DeleteUpdatesInPlace ==
  [][(IsDelete /\ engine = "mmr" /\ out'.res = "ok")
     => /\ \A i \in 1..Len(out'.E) :
             LET e == out'.E[i]
                 old == IndexRecord(db, sequence, e)
                 new == IndexRecord(db', sequence', e)
                 pos == FromLE8(SubSeq(old, 1, 8))
             IN /\ Elem(batch', db', sequence', pos)
                     = Some(LeafHash(e, SubSeq(old, 9, 16) \o LE8(sequence)))
                /\ new = SubSeq(old, 1, 16) \o LE8(sequence)
        /\ mmr_size' = mmr_size
        /\ \A e \in Items :
             (\A i \in 1..Len(out'.E) : out'.E[i] # e)
               => StoreGet(db', sequence', ElementKey(e)) = StoreGet(db, sequence, ElementKey(e))]_vars

\* element 2, added second in block 0 (position 1), deleted in block 1 while
\* element 1 keeps its record
DeleteUpdatesInPlaceWitness ==
  /\ engine = "mmr" /\ out.op = "delete" /\ out.res = "ok" /\ out.E = <<2>>
  /\ sequence = 1
  /\ IndexRecord(db, sequence, 2) = LE8(1) \o LE8(0) \o LE8(1)
  /\ Elem(batch, db, sequence, 1) = Some(LeafHash(2, new_dead(0, 1)))
  /\ IsSome(StoreGet(db, sequence, ElementKey(1)))

\* C28: add performs no uniqueness check. Adding an identity that is already
\* present, live or consumed, succeeds: the MMR appends a new leaf and
\* redirects the index record to the new position, the canonical SMT replaces
\* the leaf by the status live, created at the current sequence.
AddHasNoUniquenessCheck ==
  [][(IsAdd /\ engine \in {"mmr", "smt"})
     => /\ out'.res = "ok"
        /\ \A i \in 1..Len(out'.E) :
             LET e == out'.E[i]
             IN /\ engine = "mmr" =>
                     LET rec == IndexRecord(db', sequence', e)
                         pos == FromLE8(SubSeq(rec, 1, 8))
                     IN /\ mmr_size <= pos /\ pos < mmr_size'
                        /\ SubSeq(rec, 9, 24) = new_live(sequence)
                        /\ Elem(batch', db', sequence', pos) = Some(LeafHash(e, new_live(sequence)))
                        /\ HasRecord(engine, db, root, sequence, e)
                             => pos > FromLE8(SubSeq(IndexRecord(db, sequence, e), 1, 8))
                /\ engine = "smt" =>
                     smt_get(root', db', sequence', e, ZERO_CELL_STATUS) = new_live(sequence)]_vars

\* an identity added in block 0, consumed in block 0 or 1, and added again
\* in block 1: its status is live, created at 1
AddHasNoUniquenessCheckWitness ==
  /\ engine \in {"mmr", "smt"} /\ out.op = "add" /\ out.res = "ok"
  /\ sequence = 1
  /\ \E i \in 1..Len(out.E) :
       /\ life[out.E[i]].d # {}
       /\ 0 \in life[out.E[i]].a
       /\ StatusOf(engine, db, root, sequence, out.E[i]) = new_live(1)

\* the encoder and the node set of the scheme a codec step exercised
EncodedBy(op, node) ==
  IF op = "codec_ao" THEN ao_branch_node_to_vec(node) ELSE live_branch_node_to_vec(node)
NodesOf(op) == IF op = "codec_ao" THEN AONodes ELSE LiveNodes

\* the byte of an encoding that identifies the pair of child shapes, and the
\* length the encoder gives each tag
TagIndex(op) == IF op = "codec_ao" THEN 1 ELSE Len(SMT_KEY) + 1
EncodedLength(op, tag) ==
  IF op = "codec_ao"
  THEN CASE tag = 0 -> 65 [] tag \in {1, 2} -> 130 [] tag = 3 -> 195
  ELSE CASE tag = 0 -> 66 [] tag \in {1, 2, 4, 5} -> 99 [] tag \in {3, 6, 7, 8} -> 132

\* C29 as claimed: in every scheme the first byte of an encoded branch node
\* is the tag of its pair of child shapes, distinct pairs have distinct tags,
\* and the tag alone determines the encoded length.
FirstByteIsTag ==
  out.op \in {"codec_ao", "codec_live"}
    => \A n \in NodesOf(out.op) :
         LET a == EncodedBy(out.op, out.E)
             b == EncodedBy(out.op, n)
         IN /\ Shape(n) # Shape(out.E) => a[1] # b[1]
            /\ a[1] = b[1] => Len(a) = Len(b)

\* C29 as amended: the tag is the first byte in the append-only scheme and
\* the second byte, after the constant prefix SMT_KEY, in the live-SMT
\* scheme; distinct pairs of child shapes have distinct tags, and the tag
\* alone determines the encoded length (append-only 65, 130, 130, 195;
\* live-SMT 66, 99, 99, 132, 99, 99, 132, 132, 132 for tags 0..8).
TagByteDeterminesShape ==
  out.op \in {"codec_ao", "codec_live"}
    => LET t == TagIndex(out.op)
           a == EncodedBy(out.op, out.E)
       IN /\ out.op = "codec_live" => SubSeq(a, 1, Len(SMT_KEY)) = SMT_KEY
          /\ Len(a) = EncodedLength(out.op, a[t])
          /\ out.c = Len(a)
          /\ \A n \in NodesOf(out.op) :
               LET b == EncodedBy(out.op, n)
               IN /\ Shape(n) = Shape(out.E) <=> a[t] = b[t]
                  /\ a[t] = b[t] => Len(a) = Len(b)

\* a live-SMT node of two shortcuts: prefix byte, tag 6, 132 bytes
TagByteDeterminesShapeWitness ==
  /\ out.op = "codec_live"
  /\ Shape(out.E) = <<"ShortCut", "ShortCut">>
  /\ live_branch_node_to_vec(out.E)[1] = SMT_KEY[1]
  /\ live_branch_node_to_vec(out.E)[2] = 6
  /\ out.c = 132

\* the scheme a decode step exercised, its tag and the length of that tag
DecodedBy(op) == IF op = "decode_ao" THEN "codec_ao" ELSE "codec_live"
TagOf(op, slice) == slice[TagIndex(DecodedBy(op))]
KnownTag(op, slice) ==
  /\ Len(slice) >= TagIndex(DecodedBy(op))
  /\ TagOf(op, slice) \in (IF op = "decode_ao" THEN 0..3 ELSE 0..8)

\* C30: decoding dispatches on the tag byte only and aborts on corrupted
\* input. slice_to_branch_node aborts for an unknown tag and for any slice
\* shorter or longer than the fixed length of its tag, and returns no node
\* for such a slice.
DecodeAbortsOnCorrupted ==
  out.op \in {"decode_ao", "decode_live"}
    => ((~KnownTag(out.op, out.E)
         \/ Len(out.E) # EncodedLength(DecodedBy(out.op), TagOf(out.op, out.E)))
        => out.kind = "panic")

\* what the decoders do check: an unknown tag and a slice shorter than the
\* length of its tag abort; a longer slice aborts only for the append-only
\* tags 1, 2 and 3, whose last field is read to the end of the slice
DecodeAbortsOnShort ==
  out.op \in {"decode_ao", "decode_live"}
    => /\ ~KnownTag(out.op, out.E) => out.kind = "panic"
       /\ (KnownTag(out.op, out.E)
           /\ Len(out.E) < EncodedLength(DecodedBy(out.op), TagOf(out.op, out.E)))
            => out.kind = "panic"
       /\ (KnownTag(out.op, out.E)
           /\ Len(out.E) > EncodedLength(DecodedBy(out.op), TagOf(out.op, out.E)))
            => (out.kind = "panic" <=> (out.op = "decode_ao" /\ TagOf(out.op, out.E) \in 1..3))
       /\ (KnownTag(out.op, out.E)
           /\ Len(out.E) = EncodedLength(DecodedBy(out.op), TagOf(out.op, out.E)))
            => out.kind = "node"

\* ------------------------------------------ the keys of a store, byte by byte
\* H256::zero() and a leaf key that starts with a height byte
ZeroH256 == [i \in 1..32 |-> 0]
HeightLikeH256 == [i \in 1..32 |-> IF i = 1 THEN 255 ELSE 0]

\* the logical keys of each namespace: MMR position records, element index
\* records and size; canonical SMT leaf records and branch records (height
\* byte, then node key)
NamespaceKeys(eng) ==
  IF eng = "mmr"
  THEN [pos |-> {POS_KEY \o LE8(0), POS_KEY \o LE8(1)},
        element |-> {ELEMENT_KEY \o H256Of(7) \o LE4(0)},
        size |-> {MMR_SIZE_KEY}]
  ELSE [leaf |-> {H256Of(7), HeightLikeH256},
        branch |-> {<<255>> \o ZeroH256, <<254>> \o H256Of(7)}]
ByteKeys == UNION {NamespaceKeys(engine)[ns] : ns \in DOMAIN NamespaceKeys(engine)}

\* the entry the reverse scan of get(key) meets first
ScanFirst(d, s, key) == IterFirst({k \in DOMAIN d : LexLE(k, PhysKey(key, s))})

\* DefaultStore::put of a record of one namespace
KeyPut(key, v) ==
  /\ calls < MaxSteps
  /\ calls' = calls + 1
  /\ db' = StorePut(db, sequence, key, v)
  /\ out' = QOut("kput", <<>>, "ok", key, sequence, "none", FALSE, 0)
  /\ UNCHANGED <<engine, sequence, mmr_size, batch, root, commitments, sizes, life, queries>>

\* DefaultStore::commit
KeyCommit ==
  /\ calls < MaxSteps
  /\ sequence < MaxSeq
  /\ calls' = calls + 1
  /\ db' = store_commit(db, sequence, engine)
  /\ sequence' = sequence + 1
  /\ out' = QOut("kcommit", <<>>, "ok", <<>>, sequence, "none", FALSE, 0)
  /\ UNCHANGED <<engine, mmr_size, batch, root, commitments, sizes, life, queries>>

\* DefaultStore::get of a logical key; out.E is the physical key whose value
\* it returned
KeyGet(key) ==
  /\ out.op # "kget"
  /\ out' = QOut("kget", IF IsSome(StoreGet(db, sequence, key)) THEN ScanFirst(db, sequence, key) ELSE None,
                 StoreGet(db, sequence, key), key, sequence, "none", FALSE, 0)
  /\ UNCHANGED <<engine, db, sequence, mmr_size, batch, root, commitments, sizes, life, queries, calls>>

NextKeys ==
  \/ \E key \in ByteKeys, v \in StoreValues : KeyPut(key, v)
  \/ KeyCommit
  \/ \E key \in ByteKeys : KeyGet(key)

SpecKeys == InitStore /\ [][NextKeys]_vars

\* a get of key returned nothing, or the value put under key at some sequence
ReadsOwnNamespace ==
  /\ out.E # <<SeqKeyOf(engine)>>
  /\ out.res # None => \E t \in 0..MaxSeq : out.E = <<PhysKey(out.idx, t)>>

\* C31: namespaces sharing one physical keyspace are disjoint. In the MMR
\* store and in the canonical SMT store no physical key written for one
\* namespace is returned by a get for a logical key of another namespace,
\* and the sequence counter key is never matched by a versioned read.
NamespacesDisjoint == out.op = "kget" => ReadsOwnNamespace

\* the MMR store, whose namespaces start with different bytes, keeps them
\* apart
NamespacesDisjointMMR == (out.op = "kget" /\ engine = "mmr") => ReadsOwnNamespace

\* C32: CellStatus layout. For all 64-bit c and d, new_dead(c, d) is LE(c)
\* followed by LE(d); new_live(c) equals new_dead(c, 2^64 - 1); mark_as_dead(d)
\* on new_live(c) gives exactly new_dead(c, d) and keeps the first 8 bytes;
\* is_live holds iff the last 8 bytes are all 0xFF.
CellStatusLayout ==
  out.op = "status_new_dead"
    => /\ out.res = to_le_bytes(out.c) \o to_le_bytes(out.k)
       /\ new_live_u64(out.c) = new_dead_u64(out.c, U64_MAX)
       /\ out.E = out.res
       /\ SubSeq(out.E, 1, 8) = SubSeq(new_live_u64(out.c), 1, 8)
       /\ is_live(out.res) <=> SubSeq(out.res, 9, 16) = MAXBYTES8
       /\ is_live(out.res) <=> out.k = U64_MAX

\* created at 256, consumed at 2^64 - 2: bytes 00 01 00 .. and FE FF FF ..
CellStatusLayoutWitness ==
  /\ out.op = "status_new_dead"
  /\ out.c = <<256, 0, 0, 0>> /\ out.k = <<65534, 65535, 65535, 65535>>
  /\ out.res = <<0, 1, 0, 0, 0, 0, 0, 0, 254, 255, 255, 255, 255, 255, 255, 255>>
  /\ ~is_live(out.res)

\* ------------------------------------- a writer opened at a past sequence
\* MMRAccumulator / SMTAccumulator ::new_with_sequence(db, k) on the writable
\* database: the instance has add, delete and commit like any other
ReopenAt(k) ==
  /\ engine \in {"mmr", "smt"}
  /\ calls < MaxCalls
  /\ CanOpen(k)
  /\ calls' = calls + 1
  /\ queries' = 0
  /\ sequence' = ViewAt(k).seq
  /\ mmr_size' = ViewAt(k).size
  /\ batch' = ViewAt(k).batch
  /\ root' = ViewAt(k).root
  /\ out' = QOut("reopen_at", <<>>, "ok", 0, k, "none", FALSE, sequence)
  /\ UNCHANGED <<engine, db, commitments, sizes, life>>

NextRewind ==
  \/ \E E \in AddBatches : Add(E)
  \/ \E E \in DeleteBatches : Delete(E)
  \/ Commit
  \/ \E k \in 0..MaxSeq : ReopenAt(k)

SpecRewind == Init /\ [][NextRewind]_vars

\* the logical keys that have a versioned record in d
VersionedKeys(d) ==
  {SubSeq(pk, 1, Len(pk) - 8) : pk \in {x \in DOMAIN d : Len(x) > 8 /\ x # SEQUENCE_KEY}}

\* no step lowers the persisted SEQUENCE or changes what a view as of a
\* committed sequence reads
HistoryKept ==
  /\ StoredSequence(db', engine) >= StoredSequence(db, engine)
  /\ \A k \in 0..(StoredSequence(db, engine) - 1) :
       \A key \in VersionedKeys(db') : StoreGet(db', k, key) = StoreGet(db, k, key)

\* C33: committed history is immutable. Across any sequence of operations
\* on an MMR or canonical SMT store, a writer opened with new_with_sequence
\* at a past sequence included, the persisted SEQUENCE never decreases and no
\* value readable by a view as of a committed sequence changes.
CommittedHistoryImmutable ==
  [][(engine \in {"mmr", "smt"}) => HistoryKept]_vars

\* ------------------------------------------- a commit whose write fails
\* commit() when a put of the store's commit returns an error. The MMR and
\* canonical SMT stores have added 1 to the sequence before the put of
\* SEQUENCE; the append-only store puts the root pointer, then SEQUENCE, and
\* adds 1 after both. at names the put that fails.
FailedCommit(at) ==
  /\ engine \in {"mmr", "smt", "ao"}
  /\ sequence < MaxSeq
  /\ queries' = 0
  /\ out' = QOut("commit", <<>>, "StoreError", 0, sequence, at, FALSE, 0)
  /\ CASE engine = "mmr" ->
            /\ at = "sequence"
            /\ IsSome(mmr_get_root(batch, db, sequence, mmr_size))
            /\ db' = FlushBatch(db, batch, sequence)
            /\ batch' = EmptyBatch
            /\ sequence' = sequence + 1
       [] engine = "smt" ->
            /\ at = "sequence"
            /\ sequence' = sequence + 1
            /\ UNCHANGED <<db, batch>>
       [] OTHER ->
            /\ db' = IF at = "root" THEN db ELSE RawPut(db, SEQUENCE_TO_ROOT_KEY \o BE8(sequence), root)
            /\ UNCHANGED <<sequence, batch>>
  /\ UNCHANGED <<engine, mmr_size, root, commitments, sizes, calls, life>>

NextFaults ==
  \/ \E E \in AddBatches : Add(E)
  \/ \E E \in DeleteBatches : Delete(E)
  \/ Commit
  \/ \E at \in {"root", "sequence"} : FailedCommit(at)

SpecFaults == Init /\ [][NextFaults]_vars

\* C34: a failed commit leaves the sequence unchanged. In the MMR, canonical
\* SMT and append-only stores, when the put of SEQUENCE (or of the root
\* pointer) fails and commit returns the error, the in-memory sequence is what
\* it was before the call, the sequence that follows the last successful
\* commit.
FailedCommitKeepsSequence ==
  [][(out'.op = "commit" /\ out'.res = "StoreError")
     => /\ sequence' = sequence
        /\ sequence' = Len(commitments')]_vars

\* what holds in every store: a failed commit returns no commitment and
\* leaves the persisted SEQUENCE as it was; only the append-only store also
\* keeps the in-memory sequence
FailedCommitKeepsStore ==
  [][(out'.op = "commit" /\ out'.res = "StoreError")
     => /\ commitments' = commitments
        /\ StoredSequence(db', engine) = StoredSequence(db, engine)
        /\ (sequence' = sequence) <=> (engine = "ao")]_vars

\* ------------------------------------- the commitment check of proof()
\* the instance the recorded proof call ran on
ProofInst == IF out.op = "proof" THEN Writer ELSE ViewAt(out.k)

\* C35: proof checks the commitment by root alone. For two commitments with
\* the same root and different sequence fields, proof on the same view and the
\* same elements gives the same outcome, so a commitment whose sequence differs
\* from the view's sequence is accepted whenever its root equals the view's.
ProofByRootAlone ==
  out.op \in {"proof", "rproof"} =>
    \A s \in 0..MaxSeq :
      LET r == Proof(ProofInst, AccumulatorCommitment(CommitmentOf(out.c).root, s), out.E)
      IN /\ r.res = out.res
         /\ r.idx = out.idx
         /\ ~out.stale => r.res # "InvalidCommitment"

\* a view as of k was given a later commitment of the same root and returned a proof
ProofByRootAloneWitness ==
  /\ out.op = "rproof"
  /\ out.c > out.k
  /\ ~out.stale
  /\ out.res = "ok"
  /\ CommitmentOf(out.k).sequence # out.c
  /\ CommitmentOf(out.k).root = CommitmentOf(out.c).root

\* --------------------------------------- the counts live-SMT verify compares
\* C36: live-SMT verify returns Ok(true) only if the number of supplied
\* (element, status) pairs, the number of supplied commitment pairs and the
\* number of per-element proofs are all equal; with fewer elements than proofs
\* it does not return Ok(true).
LiveVerifyCountsAgree ==
  (out.op = "lverify" /\ ~out.stale /\ out.res = "true")
    => (Len(out.E) = out.c.n /\ out.c.n = Len(out.idx))

\* the one count verify compares: commitment pairs against per-element proofs
LiveVerifyCommitmentCount ==
  (out.op = "lverify" /\ ~out.stale /\ out.res = "true") => out.c.n = Len(out.idx)

\* ------------------------------------------- the order of proof()'s checks
\* C37: error precedence in proof. When the supplied commitment's root does
\* not match the current root and the element list also holds a never added
\* identity, proof returns InvalidCommitment, the root check being made before
\* any element is resolved, in the MMR, canonical SMT and live-SMT engines.
RootCheckedFirst ==
  (/\ out.op \in {"proof", "rproof"}
   /\ engine \in {"mmr", "smt", "live"}
   /\ out.stale
   /\ FirstNeverAdded(out.E, out.k) # 0)
    => (out.res = "InvalidCommitment" /\ out.idx = 0)

\* a historical view of the canonical SMT was given a later commitment of
\* another root together with an identity added only after the view
RootCheckedFirstWitness ==
  /\ out.op = "rproof"
  /\ engine = "smt"
  /\ out.stale
  /\ out.c > out.k
  /\ FirstNeverAdded(out.E, out.k) # 0
  /\ out.res = "InvalidCommitment"

\* ------------------------------------ the sequence suffix and the scan
\* the sequences a store is opened at: a fresh database, and databases whose
\* persisted SEQUENCE is just below a byte boundary of the suffix
SeekStarts == {0, 254, 65534}
SeekKeys == IF engine = "mmr" THEN NamespaceKeys("mmr").pos ELSE NamespaceKeys("smt").leaf

\* DefaultStore::new on a database holding SEQUENCE = s0
InitSeek ==
  /\ engine \in {"mmr", "smt"}
  /\ sequence \in SeekStarts
  /\ db = IF sequence = 0 THEN EmptyDb ELSE RawPut(EmptyDb, SeqKeyOf(engine), BE8(sequence))
  /\ mmr_size = 0
  /\ batch = EmptyBatch
  /\ root = ZERO_H
  /\ commitments = <<>>
  /\ sizes = <<>>
  /\ out = Out("new", <<>>, "ok", 0)
  /\ calls = 0
  /\ life = [e \in Items |-> [a |-> {}, d |-> {}]]
  /\ queries = 0

\* DefaultStore::put of a value that names the sequence it is written at
SeekPut(key) ==
  /\ calls < MaxSteps
  /\ calls' = calls + 1
  /\ db' = StorePut(db, sequence, key, LE8(sequence))
  /\ out' = QOut("sput", <<>>, "ok", key, sequence, "none", FALSE, 0)
  /\ UNCHANGED <<engine, sequence, mmr_size, batch, root, commitments, sizes, life, queries>>

\* DefaultStore::commit
SeekCommit ==
  /\ calls < MaxSteps
  /\ calls' = calls + 1
  /\ db' = store_commit(db, sequence, engine)
  /\ sequence' = sequence + 1
  /\ out' = QOut("scommit", <<>>, "ok", <<>>, sequence, "none", FALSE, 0)
  /\ UNCHANGED <<engine, mmr_size, batch, root, commitments, sizes, life, queries>>

\* DefaultStore::get of key by the writer (S = sequence) or by a store opened
\* with new_with_sequence(S)
SeekGet(key, S) ==
  /\ out.op # "sget"
  /\ S <= StoredSequence(db, engine)
  /\ out' = QOut("sget", <<>>, StoreGet(db, S, key), key, S, "none", FALSE, 0)
  /\ UNCHANGED <<engine, db, sequence, mmr_size, batch, root, commitments, sizes, life, queries, calls>>

NextSeek ==
  \/ \E key \in SeekKeys : SeekPut(key)
  \/ SeekCommit
  \/ \E key \in SeekKeys, S \in {x \in (sequence - MaxSeq)..sequence : x >= 0} : SeekGet(key, S)

SpecSeek == InitSeek /\ [][NextSeek]_vars

\* the physical keys written for a logical key, and the sequences they were written at
WrittenKeys(d, key) == {pk \in DOMAIN d : Len(pk) = Len(key) + 8 /\ StartsWith(pk, key)}
WrittenAt(d, key) == {FromLE8(d[pk]) : pk \in WrittenKeys(d, key)}

\* C38: the sequence suffix of a physical key is the 8-byte big-endian
\* encoding of the sequence, so for one logical key and sequences a < b the
\* physical key for a sorts strictly before the physical key for b in
\* lexicographic byte order, and the reverse scan from key+BE(S) lands on
\* the greatest written sequence <= S.
SuffixOrdersKeys ==
  /\ \A key \in SeekKeys : \A p \in WrittenKeys(db, key) :
       /\ p = key \o BE8(FromLE8(db[p]))
       /\ \A q \in WrittenKeys(db, key) :
            FromLE8(db[p]) < FromLE8(db[q]) => (LexLE(p, q) /\ ~LexLE(q, p))
  /\ out.op = "sget" =>
       LET le == {a \in WrittenAt(db, out.idx) : a <= out.k}
       IN out.res = IF le = {} THEN None
                    ELSE Some(LE8(CHOOSE m \in le : \A a \in le : a <= m))

\* a read at a sequence past a byte boundary of the suffix returned the value
\* written just before the boundary, not an older value of the key
SuffixOrdersKeysWitness ==
  /\ out.op = "sget"
  /\ out.res # None
  /\ FromLE8(out.res[1]) % 256 = 255
  /\ out.k = FromLE8(out.res[1]) + 1
  /\ \E a \in WrittenAt(db, out.idx) : a < FromLE8(out.res[1])

====
